---- MODULE Spec2Model ----
\* MeetMemo backend: the job workflow (upload, transcribe, diarize, align),
\* the content-addressed ingest, and the transcript / summary cache.
\*
\* The repository ships two entry points over the same database module:
\*   "main" : backend/main.py      (monolithic application)
\*   "v2"   : backend/main_v2.py   (routers under api/v1, services, repositories)
\* The variable app records which of the two is deployed; handlers that
\* differ between the two are modelled with one branch per entry point.
\*
\* Every await on the database or the filesystem is a step of its own:
\* other requests and background tasks interleave at those points.
EXTENDS Integers, Sequences, FiniteSets, TLC

\* ------------------------------------------------------------------------
\* Bounds of the model
\* ------------------------------------------------------------------------
\* coroutines (background tasks, request handlers suspended at an await)
\* alive at the same time
MaxTasks == 2
\* job ids ever handed out by uuid4()
MaxJobs == 3
\* files in the upload directory
MaxFiles == 3
\* start requests accepted per Job and stage
MaxAccept == 2

\* ------------------------------------------------------------------------
\* Values
\* ------------------------------------------------------------------------
Apps == {"main", "v2"}

Stages == {"transcribe", "diarize", "align"}

WorkflowStates ==
    {"uploaded", "transcribing", "transcribed", "diarizing", "diarized",
     "aligning", "completed", "error"}

NULL == "null"

\* a file name: stem, the " (Copy)" / " (Copy k)" suffixes appended to it, extension
FileName(stem, copies, ext) == [stem |-> stem, copies |-> copies, ext |-> ext]

\* os.path.splitext(file_name)[0]
splitext0(name) == [name EXCEPT !.ext = ""]

JobIds == 1 .. MaxJobs

\* content of an audio file: the uploaded bytes (named by their SHA-256), as
\* uploaded or as re-encoded by convert_to_wav
Raw(file_hash) == [bytes |-> file_hash, form |-> "raw"]

\* content of a transcript file: the segment texts and the speaker labels
Transcript(text, speakers) == [text |-> text, speakers |-> speakers]

TaskIds == 1 .. MaxTasks

VARIABLES
    app,          \* deployed entry point
    jobs,         \* table jobs: job id -> row
    uploads,      \* upload directory: file name -> content
    transcripts,  \* transcripts/<key>.json: key -> content
    edited,       \* transcripts/edited/<key>.json: key -> content
    summaries,    \* summary/<job id>.txt: job id -> content
    export_jobs,  \* table export_jobs: export id -> row
    exports,      \* exports/<export id>.<ext>: export id -> content
    tasks,        \* coroutines: background tasks and request handlers at an await
    accepted,     \* number of start requests answered 202, per Job and stage
    resp          \* the last HTTP response sent

vars == <<app, jobs, uploads, transcripts, edited, summaries, export_jobs, exports,
          tasks, accepted, resp>>

fileVars == <<uploads, transcripts, edited, summaries>>

\* a directory after aiofiles.open(path, "w") and write(content)
write_file(dir, path, content) ==
    [k \in DOMAIN dir \cup {path} |-> IF k = path THEN content ELSE dir[k]]

\* a directory after aiofiles.os.remove(path)
remove_file(dir, path) == [k \in DOMAIN dir \ {path} |-> dir[k]]

\* ------------------------------------------------------------------------
\* Job Store (database.py)
\* ------------------------------------------------------------------------
\* a row of table jobs as INSERTed; columns not named take the table defaults
JobRow(file_name, status_code, file_hash, workflow_state, created_at) ==
    [file_name |-> file_name,
     file_hash |-> file_hash,
     status_code |-> status_code,
     workflow_state |-> workflow_state,
     current_step_progress |-> 0,
     error_message |-> NULL,
     transcription_data |-> NULL,
     diarization_data |-> NULL,
     created_at |-> created_at]

\* NOW() of the INSERT: later than the created_at of every stored row
now ==
    IF DOMAIN jobs = {} THEN 1
    ELSE 1 + (CHOOSE c \in {jobs[j].created_at : j \in DOMAIN jobs} :
                 \A j \in DOMAIN jobs : jobs[j].created_at <= c)

\* add_job: INSERT INTO jobs; no constraint but the primary key uuid
add_job(uuid, file_name, status_code, file_hash, workflow_state) ==
    [j \in DOMAIN jobs \cup {uuid} |->
        IF j = uuid
        THEN JobRow(file_name, status_code, file_hash, workflow_state, now)
        ELSE jobs[j]]

\* get_job_by_hash: the uuid of the most recent Job with the hash, 0 for None
get_job_by_hash(file_hash) ==
    LET same == {j \in DOMAIN jobs : jobs[j].file_hash = file_hash}
    IN  IF same = {} THEN 0
        ELSE CHOOSE j \in same : \A k \in same : jobs[k].created_at <= jobs[j].created_at

\* UPDATE jobs SET ... WHERE uuid = $n: no row, no change
UpdateRow(uuid, row) ==
    IF uuid \in DOMAIN jobs THEN [jobs EXCEPT ![uuid] = row] ELSE jobs

update_workflow_state(uuid, new_state, progress) ==
    IF uuid \in DOMAIN jobs
    THEN UpdateRow(uuid, [jobs[uuid] EXCEPT !.workflow_state = new_state,
                                             !.current_step_progress = progress])
    ELSE jobs

update_step_progress(uuid, progress) ==
    IF uuid \in DOMAIN jobs
    THEN UpdateRow(uuid, [jobs[uuid] EXCEPT !.current_step_progress = progress])
    ELSE jobs

update_error(uuid, error_message) ==
    IF uuid \in DOMAIN jobs
    THEN UpdateRow(uuid, [jobs[uuid] EXCEPT !.status_code = 500,
                                             !.error_message = error_message])
    ELSE jobs

update_status(uuid, new_status) ==
    IF uuid \in DOMAIN jobs
    THEN UpdateRow(uuid, [jobs[uuid] EXCEPT !.status_code = new_status])
    ELSE jobs

save_transcription_data(uuid, data) ==
    IF uuid \in DOMAIN jobs
    THEN UpdateRow(uuid, [jobs[uuid] EXCEPT !.transcription_data = data])
    ELSE jobs

save_diarization_data(uuid, data) ==
    IF uuid \in DOMAIN jobs
    THEN UpdateRow(uuid, [jobs[uuid] EXCEPT !.diarization_data = data])
    ELSE jobs

\* get_transcription_data / get_diarization_data: None when the row or the column is empty
get_transcription_data(uuid) ==
    IF uuid \in DOMAIN jobs THEN jobs[uuid].transcription_data ELSE NULL

get_diarization_data(uuid) ==
    IF uuid \in DOMAIN jobs THEN jobs[uuid].diarization_data ELSE NULL

\* ------------------------------------------------------------------------
\* Background tasks
\* ------------------------------------------------------------------------
NoName == FileName("", <<>>, "")

\* the transcript held by a coroutine that holds none
NoTranscript == Transcript(-1, -1)

\* an empty slot; a coroutine holds its job id, its position and its variables:
\* a file name, a string (stage data, file hash, which transcript file, export
\* type), the Job found by hash, the ExportJob of an export task, a transcript,
\* the files still to update (or the Range header of an audio request), the
\* number of bytes of an upload
Idle == [kind |-> "idle", job |-> 0, pc |-> "", arg |-> NoName, data |-> NULL,
         found |-> 0, export |-> 0, text |-> NoTranscript, files |-> <<>>,
         size |-> 0]

FreeSlots == {t \in TaskIds : tasks[t].kind = "idle"}

\* a new coroutine in the lowest free slot
Spawn(coroutine) ==
    LET t == CHOOSE x \in FreeSlots : \A y \in FreeSlots : x <= y
    IN  [tasks EXCEPT ![t] = coroutine]

\* BackgroundTasks.add_task: the task runs after the response has been sent
add_task(kind, uuid, arg) ==
    Spawn([Idle EXCEPT !.kind = kind, !.job = uuid, !.pc = "begin", !.arg = arg])

IngState(kind) ==
    CASE kind = "transcribe" -> "transcribing"
      [] kind = "diarize"    -> "diarizing"
      [] kind = "align"      -> "aligning"

RestingState(kind) ==
    CASE kind = "transcribe" -> "transcribed"
      [] kind = "diarize"    -> "diarized"
      [] kind = "align"      -> "completed"

FailedMessage(kind) ==
    CASE kind = "transcribe" -> "Transcription failed"
      [] kind = "diarize"    -> "Diarization failed"
      [] kind = "align"      -> "Alignment failed"

\* the name under which a Job's transcripts are stored:
\* main.py uses file_name, api/v1 uses os.path.splitext(file_name)[0]
TranscriptKey(file_name) == IF app = "v2" THEN splitext0(file_name) ELSE file_name

SetPc(t, pc) == [tasks EXCEPT ![t].pc = pc]

IsStageTask(t) == tasks[t].kind \in Stages

\* await update_workflow_state(job_uuid, '<stage>ing', 0)
TaskBegin(t) ==
    /\ IsStageTask(t) /\ tasks[t].pc = "begin"
    /\ jobs' = update_workflow_state(tasks[t].job, IngState(tasks[t].kind), 0)
    /\ tasks' = SetPc(t, "p10")
    /\ UNCHANGED <<app, export_jobs, exports, fileVars, accepted, resp>>

\* await update_step_progress(job_uuid, 10)
TaskProgress10(t) ==
    /\ IsStageTask(t) /\ tasks[t].pc = "p10"
    /\ jobs' = update_step_progress(tasks[t].job, 10)
    /\ tasks' = SetPc(t, IF tasks[t].kind = "align" THEN "load_t" ELSE "run")
    /\ UNCHANGED <<app, export_jobs, exports, fileVars, accepted, resp>>

\* the ASR / diarization engine runs on the audio file; it returns or raises
TaskRun(t) ==
    /\ tasks[t].kind \in {"transcribe", "diarize"} /\ tasks[t].pc = "run"
    /\ \E ok \in BOOLEAN :
         tasks' = SetPc(t, IF ~ok THEN "err_msg"
                           ELSE IF tasks[t].kind = "transcribe" /\ app = "v2"
                                THEN "p50" ELSE "p90")
    /\ UNCHANGED <<app, export_jobs, exports, jobs, fileVars, accepted, resp>>

\* transcription_service.py only: await update_step_progress(job_uuid, 50)
TaskProgress50(t) ==
    /\ tasks[t].kind \in {"transcribe", "align"} /\ tasks[t].pc = "p50"
    /\ jobs' = update_step_progress(tasks[t].job, 50)
    /\ tasks' = SetPc(t, IF tasks[t].kind = "align" THEN "p80" ELSE "p90")
    /\ UNCHANGED <<app, export_jobs, exports, fileVars, accepted, resp>>

\* await update_step_progress(job_uuid, 90)
TaskProgress90(t) ==
    /\ tasks[t].kind \in {"transcribe", "diarize"} /\ tasks[t].pc = "p90"
    /\ jobs' = update_step_progress(tasks[t].job, 90)
    /\ tasks' = SetPc(t, "save")
    /\ UNCHANGED <<app, export_jobs, exports, fileVars, accepted, resp>>

\* await save_transcription_data / save_diarization_data
TaskSave(t) ==
    /\ tasks[t].kind \in {"transcribe", "diarize"} /\ tasks[t].pc = "save"
    /\ jobs' = IF tasks[t].kind = "transcribe"
               THEN save_transcription_data(tasks[t].job, "asr")
               ELSE save_diarization_data(tasks[t].job, "turns")
    /\ tasks' = SetPc(t, "p100")
    /\ UNCHANGED <<app, export_jobs, exports, fileVars, accepted, resp>>

\* align: transcription_data = await get_transcription_data(job_uuid)
TaskLoadTranscription(t) ==
    /\ tasks[t].kind = "align" /\ tasks[t].pc = "load_t"
    /\ tasks' = [tasks EXCEPT ![t].pc = "load_d",
                              ![t].data = get_transcription_data(tasks[t].job)]
    /\ UNCHANGED <<app, export_jobs, exports, jobs, fileVars, accepted, resp>>

\* align: diarization_data = await get_diarization_data(job_uuid), then
\* "if not transcription_data: raise ..." and "if not diarization_data: raise ..."
TaskLoadDiarization(t) ==
    /\ tasks[t].kind = "align" /\ tasks[t].pc = "load_d"
    /\ tasks' = SetPc(t, IF tasks[t].data = NULL \/ get_diarization_data(tasks[t].job) = NULL
                         THEN "err_msg" ELSE "p30")
    /\ UNCHANGED <<app, export_jobs, exports, jobs, fileVars, accepted, resp>>

\* align: await update_step_progress(job_uuid, 30)
TaskProgress30(t) ==
    /\ tasks[t].kind = "align" /\ tasks[t].pc = "p30"
    /\ jobs' = update_step_progress(tasks[t].job, 30)
    /\ tasks' = SetPc(t, "p50")
    /\ UNCHANGED <<app, export_jobs, exports, fileVars, accepted, resp>>

\* align: await update_step_progress(job_uuid, 80)
TaskProgress80(t) ==
    /\ tasks[t].kind = "align" /\ tasks[t].pc = "p80"
    /\ jobs' = update_step_progress(tasks[t].job, 80)
    /\ tasks' = SetPc(t, "write")
    /\ UNCHANGED <<app, export_jobs, exports, fileVars, accepted, resp>>

\* align: the aligned transcript is written to <transcript dir>/<file_name>.json;
\* opening or writing the file may raise
TaskWriteTranscript(t) ==
    /\ tasks[t].kind = "align" /\ tasks[t].pc = "write"
    /\ \E ok \in BOOLEAN :
         IF ok
         THEN /\ transcripts' = write_file(transcripts, tasks[t].arg, Transcript(0, 0))
              /\ tasks' = SetPc(t, "p100")
         ELSE /\ transcripts' = transcripts
              /\ tasks' = SetPc(t, "err_msg")
    /\ UNCHANGED <<app, export_jobs, exports, jobs, uploads, edited, summaries, accepted, resp>>

\* await update_step_progress(job_uuid, 100)
TaskProgress100(t) ==
    /\ IsStageTask(t) /\ tasks[t].pc = "p100"
    /\ jobs' = update_step_progress(tasks[t].job, 100)
    /\ tasks' = SetPc(t, "set_done")
    /\ UNCHANGED <<app, export_jobs, exports, fileVars, accepted, resp>>

\* await update_workflow_state(job_uuid, '<resting state>', 100);
\* transcribe and diarize return here
TaskSetDone(t) ==
    /\ IsStageTask(t) /\ tasks[t].pc = "set_done"
    /\ jobs' = update_workflow_state(tasks[t].job, RestingState(tasks[t].kind), 100)
    /\ tasks' = IF tasks[t].kind = "align" THEN SetPc(t, "status") ELSE [tasks EXCEPT ![t] = Idle]
    /\ UNCHANGED <<app, export_jobs, exports, fileVars, accepted, resp>>

\* align: await update_status(job_uuid, 200); the task returns
TaskStatus200(t) ==
    /\ tasks[t].kind = "align" /\ tasks[t].pc = "status"
    /\ jobs' = update_status(tasks[t].job, 200)
    /\ tasks' = [tasks EXCEPT ![t] = Idle]
    /\ UNCHANGED <<app, export_jobs, exports, fileVars, accepted, resp>>

\* except Exception: await update_error(job_uuid, f"<Stage> failed: {error_msg}")
TaskErrorMessage(t) ==
    /\ IsStageTask(t) /\ tasks[t].pc = "err_msg"
    /\ jobs' = update_error(tasks[t].job, FailedMessage(tasks[t].kind))
    /\ tasks' = SetPc(t, "err_state")
    /\ UNCHANGED <<app, export_jobs, exports, fileVars, accepted, resp>>

\* except Exception: await update_workflow_state(job_uuid, 'error', 0); the task ends
TaskErrorState(t) ==
    /\ IsStageTask(t) /\ tasks[t].pc = "err_state"
    /\ jobs' = update_workflow_state(tasks[t].job, "error", 0)
    /\ tasks' = [tasks EXCEPT ![t] = Idle]
    /\ UNCHANGED <<app, export_jobs, exports, fileVars, accepted, resp>>

StageTaskStep(t) ==
    \/ TaskBegin(t)
    \/ TaskProgress10(t)
    \/ TaskRun(t)
    \/ TaskProgress50(t)
    \/ TaskProgress90(t)
    \/ TaskSave(t)
    \/ TaskLoadTranscription(t)
    \/ TaskLoadDiarization(t)
    \/ TaskProgress30(t)
    \/ TaskProgress80(t)
    \/ TaskWriteTranscript(t)
    \/ TaskProgress100(t)
    \/ TaskSetDone(t)
    \/ TaskStatus200(t)
    \/ TaskErrorMessage(t)
    \/ TaskErrorState(t)

\* ------------------------------------------------------------------------
\* Workflow step endpoints (main.py, api/v1/jobs.py)
\* ------------------------------------------------------------------------
\* the workflow_state each stage requires of the Job
RequiredState(stage) ==
    CASE stage = "transcribe" -> "uploaded"
      [] stage = "diarize"    -> "transcribed"
      [] stage = "align"      -> "diarized"

Response(op, uuid, code) ==
    [op |-> op, job |-> uuid, code |-> code,
     full_transcript |-> NoTranscript, is_edited |-> FALSE]

\* the bound on accepted requests and on live tasks
CanAccept(uuid, stage) == accepted[uuid][stage] < MaxAccept /\ FreeSlots # {}

Accept(uuid, stage, arg) ==
    /\ CanAccept(uuid, stage)
    /\ tasks' = add_task(stage, uuid, arg)
    /\ accepted' = [accepted EXCEPT ![uuid][stage] = @ + 1]
    /\ resp' = Response(stage, uuid, 202)

Reject(uuid, stage, code) ==
    /\ resp' = Response(stage, uuid, code)
    /\ UNCHANGED <<tasks, accepted>>

\* main.py checks workflow_state; api/v1/jobs.py only checks that the Job exists
StateAllows(uuid, stage) ==
    app = "main" => jobs[uuid].workflow_state = RequiredState(stage)

\* POST /jobs/{uuid}/transcriptions
start_transcription(uuid) ==
    /\ IF uuid \notin DOMAIN jobs THEN Reject(uuid, "transcribe", 404)
       ELSE IF ~StateAllows(uuid, "transcribe") THEN Reject(uuid, "transcribe", 400)
       ELSE IF app = "main" /\ jobs[uuid].file_name \notin DOMAIN uploads
            THEN Reject(uuid, "transcribe", 404)
       ELSE Accept(uuid, "transcribe", jobs[uuid].file_name)
    /\ UNCHANGED <<app, export_jobs, exports, jobs, fileVars>>

\* POST /jobs/{uuid}/diarizations
start_diarization(uuid) ==
    /\ IF uuid \notin DOMAIN jobs THEN Reject(uuid, "diarize", 404)
       ELSE IF ~StateAllows(uuid, "diarize") THEN Reject(uuid, "diarize", 400)
       ELSE IF app = "main" /\ jobs[uuid].file_name \notin DOMAIN uploads
            THEN Reject(uuid, "diarize", 404)
       ELSE Accept(uuid, "diarize", jobs[uuid].file_name)
    /\ UNCHANGED <<app, export_jobs, exports, jobs, fileVars>>

\* POST /jobs/{uuid}/alignments
start_alignment(uuid) ==
    /\ IF uuid \notin DOMAIN jobs THEN Reject(uuid, "align", 404)
       ELSE IF ~StateAllows(uuid, "align") THEN Reject(uuid, "align", 400)
       ELSE Accept(uuid, "align", TranscriptKey(jobs[uuid].file_name))
    /\ UNCHANGED <<app, export_jobs, exports, jobs, fileVars>>

\* ------------------------------------------------------------------------
\* The workflow specification: one uploaded Job, as create_job leaves it
\* ------------------------------------------------------------------------
AudioA == FileName("a", <<>>, "wav")

\* status_code of a new Job: main.py passes 202 to add_job, JobRepository.create passes 200
CreatedStatus == IF app = "main" THEN 202 ELSE 200

NoResponse == Response("none", 0, 0)

EmptyFiles == [k \in {} |-> 0]

Init ==
    /\ app \in Apps
    /\ jobs = [j \in {1} |-> JobRow(AudioA, CreatedStatus, "h1", "uploaded", 1)]
    /\ uploads = [k \in {AudioA} |-> Raw("h1")]
    /\ transcripts = EmptyFiles
    /\ edited = EmptyFiles
    /\ summaries = EmptyFiles
    /\ export_jobs = EmptyFiles
    /\ exports = EmptyFiles
    /\ tasks = [t \in TaskIds |-> Idle]
    /\ accepted = [j \in JobIds |-> [s \in Stages |-> 0]]
    /\ resp = NoResponse

Next ==
    \/ \E j \in JobIds : start_transcription(j)
    \/ \E j \in JobIds : start_diarization(j)
    \/ \E j \in JobIds : start_alignment(j)
    \/ \E t \in TaskIds : StageTaskStep(t)

Spec == Init /\ [][Next]_vars

\* ------------------------------------------------------------------------
\* Claims about the workflow
\* ------------------------------------------------------------------------
\* the edges of the declared state machine
Edges ==
    {<<"uploaded", "transcribing">>, <<"transcribing", "transcribed">>,
     <<"transcribed", "diarizing">>, <<"diarizing", "diarized">>,
     <<"diarized", "aligning">>, <<"aligning", "completed">>,
     <<"transcribing", "error">>, <<"diarizing", "error">>, <<"aligning", "error">>}

\* C1: every change of a Job's workflow_state follows an edge of the declared
\* state machine; no stage is skipped or re-entered, and error and completed
\* have no outgoing edge.
C1_TransitionsFollowEdges ==
    [][\A j \in (DOMAIN jobs) \cap (DOMAIN jobs') :
          jobs'[j].workflow_state # jobs[j].workflow_state
          => <<jobs[j].workflow_state, jobs'[j].workflow_state>> \in Edges]_vars

StartStage(uuid, stage) ==
    CASE stage = "transcribe" -> start_transcription(uuid)
      [] stage = "diarize"    -> start_diarization(uuid)
      [] stage = "align"      -> start_alignment(uuid)

\* C2: a start request for a stage on a Job that is not in the state the stage
\* requires is answered with a 4xx, enqueues no task and leaves the Job unchanged.
C2_WrongStateIsRejected ==
    [][\A j \in DOMAIN jobs : \A s \in Stages :
          (StartStage(j, s) /\ jobs[j].workflow_state # RequiredState(s))
          => (resp'.code \in 400 .. 499 /\ tasks' = tasks /\ jobs' = jobs)]_vars

\* C3: for each Job and stage at most one start request is accepted, so at most
\* one stage task runs for that edge.
C3_AtMostOneTaskPerEdge ==
    \A j \in JobIds : \A s \in Stages : accepted[j][s] <= 1

\* C6: the canonical transcript file of a Job exists if and only if the Job's
\* workflow_state is completed.
C6_TranscriptIffCompleted ==
    \A j \in DOMAIN jobs :
        (TranscriptKey(jobs[j].file_name) \in DOMAIN transcripts)
        <=> (jobs[j].workflow_state = "completed")

\* C7: a Job's error_message is non-null if and only if its workflow_state is error.
C7_ErrorMessageIffError ==
    \A j \in DOMAIN jobs :
        (jobs[j].error_message # NULL) <=> (jobs[j].workflow_state = "error")

\* the step in which stage task t returns
TaskEnds(t) == tasks[t].kind \in Stages /\ tasks'[t].kind = "idle"

\* C8: when a stage task ends, its Job is in the stage's resting state with
\* current_step_progress = 100, or in error with status_code = 500 and the
\* error message recorded; it is not left in an -ing state.
C8_TaskEndsRestingOrError ==
    [][\A t \in TaskIds :
          (TaskEnds(t) /\ tasks[t].job \in DOMAIN jobs')
          => LET row == jobs'[tasks[t].job]
             IN  \/ /\ row.workflow_state = RestingState(tasks[t].kind)
                    /\ row.current_step_progress = 100
                 \/ /\ row.workflow_state = "error"
                    /\ row.status_code = 500
                    /\ row.error_message # NULL]_vars

\* ------------------------------------------------------------------------
\* Ingest: POST /jobs (create_job, upload_audio)
\* ------------------------------------------------------------------------
\* config.py max_file_size / main.py MAX_FILE_SIZE
max_file_size == 100 * 1024 * 1024

\* get_unique_filename: desired, or the first of "<name> (Copy)<ext>",
\* "<name> (Copy 2)<ext>", ... that is not in the directory; os.path.exists is
\* evaluated when the name is picked, the file is created later
get_unique_filename(directory, desired_filename, exclude_path) ==
    LET taken(n) == n \in directory /\ n # exclude_path
        copy(k) == [desired_filename EXCEPT !.copies = Append(@, k)]
        counter == CHOOSE k \in 1 .. Cardinality(directory) + 1 :
                      /\ ~taken(copy(k))
                      /\ \A i \in 1 .. k - 1 : taken(copy(i))
    IN  IF taken(desired_filename) THEN copy(counter) ELSE desired_filename

\* f"{os.path.splitext(file_name)[0]}.wav"
wav_file_name(file_name) == [file_name EXCEPT !.ext = "wav"]

\* uuid4(): an id no Job and no request in flight holds
FreshIds == JobIds \ (DOMAIN jobs \cup {tasks[t].job : t \in TaskIds})

\* the coroutine returns with an HTTP response
Finish(t, response) ==
    /\ tasks' = [tasks EXCEPT ![t] = Idle]
    /\ resp' = response

\* names, contents and sizes of the uploads that arrive
UploadNames == {FileName("a", <<>>, "wav"), FileName("a", <<>>, "mp3")}

UploadBytes == {"h1", "h2"}

UploadSizes == {max_file_size, max_file_size + 1}

\* what convert_to_wav does: it writes the WAV file, raises before writing,
\* or raises after a part of the WAV file has been written
ConvertOutcomes == {"ok", "fail", "partial"}

\* if file_size > max_file_size: raise HTTPException(status_code=413)
too_large_at_limit(file_size) == file_size >= max_file_size

too_large(file_size) == file_size > max_file_size

\* POST /jobs arrives: upload_audio reads the chunks (413 past max_file_size),
\* hashes them and picks the file name; opening the file is the first await
create_job(name, bytes, size) ==
    /\ FreeSlots # {} /\ FreshIds # {}
    /\ Cardinality(DOMAIN uploads) < MaxFiles
    /\ IF too_large(size)
       THEN /\ resp' = Response("create", 0, 413)
            /\ tasks' = tasks
       ELSE /\ tasks' = Spawn([Idle EXCEPT
                       !.kind = "create",
                       !.job = CHOOSE j \in FreshIds : \A k \in FreshIds : j <= k,
                       !.pc = "write",
                       !.arg = get_unique_filename(DOMAIN uploads, name, NoName),
                       !.data = bytes, !.size = size])
            /\ resp' = resp
    /\ UNCHANGED <<app, export_jobs, exports, jobs, fileVars, accepted>>

\* upload_audio: async with aiofiles.open(file_path, "wb"): write the chunks
CreateWrite(t) ==
    /\ tasks[t].kind = "create" /\ tasks[t].pc = "write"
    /\ uploads' = write_file(uploads, tasks[t].arg, Raw(tasks[t].data))
    /\ tasks' = SetPc(t, "check")
    /\ UNCHANGED <<app, export_jobs, exports, jobs, transcripts, edited, summaries, accepted, resp>>

\* the convert_to_wav call and what follows it up to the next await
Convert(t, outcome) ==
    LET wav == wav_file_name(tasks[t].arg)
        src == tasks[t].arg
        out == IF outcome = "ok" /\ src \in DOMAIN uploads
               THEN write_file(uploads, wav, [uploads[src] EXCEPT !.form = "wav"])
               ELSE IF outcome = "partial" /\ src \in DOMAIN uploads
               THEN write_file(uploads, wav, [uploads[src] EXCEPT !.form = "partial"])
               ELSE uploads
    IN  /\ uploads' = out
        /\ IF outcome = "ok" /\ src \in DOMAIN uploads
           THEN tasks' = SetPc(t, "conv_exists") /\ resp' = resp
           ELSE IF app = "main"
           THEN tasks' = SetPc(t, "fail_exists") /\ resp' = resp
           ELSE Finish(t, Response("create", 0, 500))

\* existing_job = await get_job_by_hash(file_hash); main.py converts a file
\* that is not .wav in the same step (convert_to_wav is called synchronously)
CreateCheckDuplicate(t) ==
    /\ tasks[t].kind = "create" /\ tasks[t].pc = "check"
    /\ LET existing_job == get_job_by_hash(tasks[t].data)
       IN  IF existing_job # 0
           THEN /\ tasks' = [tasks EXCEPT ![t].pc = "dup_exists", ![t].found = existing_job]
                /\ UNCHANGED <<uploads, resp>>
           ELSE IF tasks[t].arg.ext = "wav"
           THEN /\ tasks' = SetPc(t, "insert")
                /\ UNCHANGED <<uploads, resp>>
           ELSE IF app = "main"
           THEN \E outcome \in ConvertOutcomes : Convert(t, outcome)
           ELSE /\ tasks' = SetPc(t, "convert")
                /\ UNCHANGED <<uploads, resp>>
    /\ UNCHANGED <<app, export_jobs, exports, jobs, transcripts, edited, summaries, accepted>>

\* duplicate: if await exists(file_path): await remove(file_path); the Job found
\* is returned. A remove of a file that is gone raises: the handler's
\* "except Exception" runs update_status(job_uuid, 500) and answers 500
CreateDiscardDuplicate(t) ==
    /\ tasks[t].kind = "create" /\ tasks[t].pc \in {"dup_exists", "dup_remove"}
    /\ IF tasks[t].pc = "dup_exists"
       THEN /\ IF tasks[t].arg \in DOMAIN uploads
               THEN tasks' = SetPc(t, "dup_remove") /\ resp' = resp
               ELSE Finish(t, Response("create", tasks[t].found, 202))
            /\ UNCHANGED <<uploads, jobs>>
       ELSE IF tasks[t].arg \in DOMAIN uploads
       THEN /\ uploads' = remove_file(uploads, tasks[t].arg)
            /\ Finish(t, Response("create", tasks[t].found, 202))
            /\ jobs' = jobs
       ELSE /\ jobs' = update_status(tasks[t].job, 500)
            /\ Finish(t, Response("create", 0, 500))
            /\ uploads' = uploads
    /\ UNCHANGED <<app, export_jobs, exports, transcripts, edited, summaries, accepted>>

\* api/v1: await audio_service.convert_to_wav_async(file_name, wav_file_name)
CreateConvert(t) ==
    /\ tasks[t].kind = "create" /\ tasks[t].pc = "convert"
    /\ \E outcome \in ConvertOutcomes : Convert(t, outcome)
    /\ UNCHANGED <<app, export_jobs, exports, jobs, transcripts, edited, summaries, accepted>>

\* after the conversion: if await exists(file_path): await remove(file_path);
\* a remove that raises is handled like a failed conversion
CreateRemoveOriginal(t) ==
    /\ tasks[t].kind = "create" /\ tasks[t].pc \in {"conv_exists", "conv_remove"}
    /\ LET inserting == [tasks EXCEPT ![t].pc = "insert",
                                      ![t].arg = wav_file_name(tasks[t].arg)]
       IN  IF tasks[t].pc = "conv_exists"
           THEN /\ tasks' = IF tasks[t].arg \in DOMAIN uploads
                            THEN SetPc(t, "conv_remove") ELSE inserting
                /\ UNCHANGED <<uploads, resp>>
           ELSE IF tasks[t].arg \in DOMAIN uploads
           THEN /\ uploads' = remove_file(uploads, tasks[t].arg)
                /\ tasks' = inserting
                /\ resp' = resp
           ELSE /\ uploads' = uploads
                /\ IF app = "main"
                   THEN tasks' = SetPc(t, "fail_exists") /\ resp' = resp
                   ELSE Finish(t, Response("create", 0, 500))
    /\ UNCHANGED <<app, export_jobs, exports, jobs, transcripts, edited, summaries, accepted>>

\* main.py, conversion failed: if await exists(wav_file_path): remove it
\* (errors of the remove are swallowed); then HTTP 500
CreateFailedConversion(t) ==
    /\ app = "main"
    /\ tasks[t].kind = "create" /\ tasks[t].pc \in {"fail_exists", "fail_remove"}
    /\ LET wav == wav_file_name(tasks[t].arg)
       IN  IF tasks[t].pc = "fail_exists" /\ wav \in DOMAIN uploads
           THEN /\ tasks' = SetPc(t, "fail_remove")
                /\ UNCHANGED <<uploads, resp>>
           ELSE /\ uploads' = IF tasks[t].pc = "fail_remove"
                              THEN remove_file(uploads, wav) ELSE uploads
                /\ Finish(t, Response("create", 0, 500))
    /\ UNCHANGED <<app, export_jobs, exports, jobs, transcripts, edited, summaries, accepted>>

\* await add_job(job_uuid, file_name, <status>, file_hash, 'uploaded'); 202
CreateInsert(t) ==
    /\ tasks[t].kind = "create" /\ tasks[t].pc = "insert"
    /\ jobs' = add_job(tasks[t].job, tasks[t].arg, CreatedStatus, tasks[t].data, "uploaded")
    /\ Finish(t, Response("create", tasks[t].job, 202))
    /\ UNCHANGED <<app, export_jobs, exports, fileVars, accepted>>

CreateStep(t) ==
    \/ CreateWrite(t)
    \/ CreateCheckDuplicate(t)
    \/ CreateDiscardDuplicate(t)
    \/ CreateConvert(t)
    \/ CreateRemoveOriginal(t)
    \/ CreateFailedConversion(t)
    \/ CreateInsert(t)

\* the ingest specification: uploads arrive while Job 1 is in the store
NextIngest ==
    \/ \E name \in UploadNames, bytes \in UploadBytes, size \in UploadSizes :
          create_job(name, bytes, size)
    \/ \E t \in TaskIds : CreateStep(t)

SpecIngest == Init /\ [][NextIngest]_vars

\* ------------------------------------------------------------------------
\* Claims about the ingest
\* ------------------------------------------------------------------------
\* a create request returns a Job
CreateReturns(t) ==
    tasks[t].kind = "create" /\ tasks'[t].kind = "idle" /\ resp'.code = 202

\* C4: at most one Job exists per file_hash in every state, and every create
\* request that returns a Job for some bytes returns the one Job with that
\* hash, so that two requests carrying identical bytes return the same id.
C4_OneJobPerHash ==
    /\ [](\A i, j \in DOMAIN jobs : jobs[i].file_hash = jobs[j].file_hash => i = j)
    /\ [][\A t \in TaskIds :
             CreateReturns(t)
             => \A j \in DOMAIN jobs' :
                   jobs'[j].file_hash = tasks[t].data => j = resp'.job]_vars

\* C5: a create request carrying the bytes of Job 1, which is in the store
\* from the start, persists no Job, and none of its steps changes the audio
\* file of Job 1 or any file other than its own upload; it ends by returning
\* Job 1, with its own upload removed from the upload directory.
C5_DuplicateReturnsExisting ==
    [][\A t \in TaskIds :
          (/\ tasks[t].kind = "create"
           /\ 1 \in DOMAIN jobs /\ tasks[t].data = jobs[1].file_hash
           /\ <<tasks'[t].kind, tasks'[t].pc>> # <<tasks[t].kind, tasks[t].pc>>)
          => /\ jobs' = jobs
             /\ (/\ jobs[1].file_name \in DOMAIN uploads
                 /\ uploads[jobs[1].file_name].bytes = jobs[1].file_hash)
                => /\ jobs[1].file_name \in DOMAIN uploads'
                   /\ uploads'[jobs[1].file_name] = uploads[jobs[1].file_name]
             /\ DOMAIN uploads' \subseteq DOMAIN uploads \cup {tasks[t].arg}
             /\ \A f \in DOMAIN uploads \ {tasks[t].arg} :
                   f \in DOMAIN uploads' /\ uploads'[f] = uploads[f]
             /\ tasks'[t].kind = "idle"
                => /\ resp' = Response("create", 1, 202)
                   /\ tasks[t].arg \notin DOMAIN uploads']_vars

\* C14: a create_job request that inserts a Job inserts it with workflow_state
\* 'uploaded', status_code 202, the hash of the uploaded bytes as file_hash,
\* no transcription data, no diarization data and no error message.
C14_NewJobIsUploaded202 ==
    [][\A t \in TaskIds :
          (/\ tasks[t].kind = "create"
           /\ tasks[t].job \notin DOMAIN jobs
           /\ tasks[t].job \in DOMAIN jobs')
          => LET row == jobs'[tasks[t].job]
             IN  /\ row.workflow_state = "uploaded"
                 /\ row.status_code = 202
                 /\ row.file_hash = tasks[t].data
                 /\ row.transcription_data = NULL
                 /\ row.diarization_data = NULL
                 /\ row.error_message = NULL]_vars

\* ------------------------------------------------------------------------
\* Transcript edits and the summary cache
\* (api/v1/transcripts.py, speakers.py, summaries.py; the same handlers of main.py)
\* ------------------------------------------------------------------------
\* the transcript a request body carries, the label a speaker mapping assigns
EditInputs == {Transcript(1, 0)}

SpeakerMappings == {1}

\* the summary the LLM writes for a transcript
Summary(transcript) == [of |-> transcript]

\* entry["speaker"] = mapping[old_name] for every entry
apply_mapping(transcript, mapping) == [transcript EXCEPT !.speakers = mapping]

\* get_transcript_path: the edited transcript if it exists, else the canonical one
get_transcript_path(key) ==
    IF key \in DOMAIN edited THEN "edited"
    ELSE IF key \in DOMAIN transcripts THEN "canonical" ELSE NULL

ReadTranscript(where, key) == IF where = "edited" THEN edited[key] ELSE transcripts[key]

HasTranscript(where, key) ==
    IF where = "edited" THEN key \in DOMAIN edited ELSE key \in DOMAIN transcripts

\* SummaryService.delete_summary: aiofiles.os.remove(summary_path)
delete_summary_kept(job_uuid) == summaries

delete_summary(job_uuid) == remove_file(summaries, job_uuid)

\* a request arrives and job = await get_job(uuid) returns: 404, or the
\* handler goes on with the Job's transcript key
Arrive(kind, uuid, pc, text, files) ==
    /\ FreeSlots # {}
    /\ IF uuid \notin DOMAIN jobs
       THEN resp' = Response(kind, uuid, 404) /\ tasks' = tasks
       ELSE /\ tasks' = Spawn([Idle EXCEPT
                       !.kind = kind, !.job = uuid, !.pc = pc,
                       !.arg = TranscriptKey(jobs[uuid].file_name),
                       !.text = text, !.files = files])
            /\ resp' = resp
    /\ UNCHANGED <<app, export_jobs, exports, jobs, fileVars, accepted>>

\* PATCH /jobs/{uuid}/transcripts
update_transcript(uuid, transcript) == Arrive("edit", uuid, "write", transcript, <<>>)

\* PATCH /jobs/{uuid}/speakers: api/v1 reads the canonical transcript and
\* writes the edited one; main.py first looks which of the two files exist
update_speakers(uuid, mapping) ==
    Arrive("speakers", uuid, IF app = "v2" THEN "read" ELSE "exists_e", NoTranscript,
           IF app = "v2" THEN <<[from |-> "canonical", to |-> "edited", mapping |-> mapping]>>
           ELSE <<[from |-> "edited", to |-> "edited", mapping |-> mapping],
                  [from |-> "canonical", to |-> "canonical", mapping |-> mapping]>>)

\* GET /jobs/{uuid}/summaries
get_summary(uuid) == Arrive("summary", uuid, "cache_exists", NoTranscript, <<>>)

\* POST /jobs/{uuid}/summaries
create_summary(uuid) == Arrive("summarize", uuid, "path_e", NoTranscript, <<>>)

\* update_transcript: the request's transcript is written to the edited path
EditWrite(t) ==
    /\ tasks[t].kind = "edit" /\ tasks[t].pc = "write"
    /\ edited' = write_file(edited, tasks[t].arg, tasks[t].text)
    /\ tasks' = SetPc(t, "inval_exists")
    /\ UNCHANGED <<app, export_jobs, exports, jobs, uploads, transcripts, summaries, accepted, resp>>

\* main.py update_speakers: files_to_update, from two exists() calls
SpeakersResolve(t) ==
    /\ tasks[t].kind = "speakers" /\ tasks[t].pc \in {"exists_e", "exists_c"}
    /\ LET first == tasks[t].pc = "exists_e"
           found == HasTranscript(IF first THEN "edited" ELSE "canonical", tasks[t].arg)
           files == IF found THEN tasks[t].files
                    ELSE IF first THEN Tail(tasks[t].files)
                    ELSE SubSeq(tasks[t].files, 1, Len(tasks[t].files) - 1)
       IN  IF first
           THEN tasks' = [tasks EXCEPT ![t].pc = "exists_c", ![t].files = files] /\ resp' = resp
           ELSE IF files = <<>>
           THEN Finish(t, Response("speakers", tasks[t].job, 404))
           ELSE tasks' = [tasks EXCEPT ![t].pc = "read", ![t].files = files] /\ resp' = resp
    /\ UNCHANGED <<app, export_jobs, exports, jobs, fileVars, accepted>>

\* update_speakers: a transcript file is read and the mapping applied
SpeakersRead(t) ==
    /\ tasks[t].kind = "speakers" /\ tasks[t].pc = "read"
    /\ LET file == Head(tasks[t].files)
       IN  IF HasTranscript(file.from, tasks[t].arg)
           THEN /\ tasks' = [tasks EXCEPT ![t].pc = "write",
                               ![t].text = apply_mapping(ReadTranscript(file.from, tasks[t].arg),
                                                         file.mapping)]
                /\ resp' = resp
           ELSE Finish(t, Response("speakers", tasks[t].job, 500))
    /\ UNCHANGED <<app, export_jobs, exports, jobs, fileVars, accepted>>

\* update_speakers: the relabelled transcript is written
SpeakersWrite(t) ==
    /\ tasks[t].kind = "speakers" /\ tasks[t].pc = "write"
    /\ LET file == Head(tasks[t].files)
           rest == Tail(tasks[t].files)
       IN  /\ IF file.to = "edited"
              THEN /\ edited' = write_file(edited, tasks[t].arg, tasks[t].text)
                   /\ transcripts' = transcripts
              ELSE /\ transcripts' = write_file(transcripts, tasks[t].arg, tasks[t].text)
                   /\ edited' = edited
           /\ tasks' = [tasks EXCEPT ![t].pc = IF rest = <<>> THEN "inval_exists" ELSE "read",
                                     ![t].files = rest]
    /\ UNCHANGED <<app, export_jobs, exports, jobs, uploads, summaries, accepted, resp>>

\* the cached summary is invalidated: if await exists(summary_path): await
\* remove(summary_path), then the success response. A remove of a file that
\* is gone raises: api/v1 answers 500, main.py logs a warning and goes on
Invalidate(t) ==
    /\ tasks[t].kind \in {"edit", "speakers"}
    /\ tasks[t].pc \in {"inval_exists", "inval_remove"}
    /\ IF tasks[t].pc = "inval_exists" /\ tasks[t].job \in DOMAIN summaries
       THEN /\ tasks' = SetPc(t, "inval_remove")
            /\ UNCHANGED <<summaries, resp>>
       ELSE IF tasks[t].pc = "inval_remove" /\ tasks[t].job \notin DOMAIN summaries
                /\ app = "v2"
       THEN /\ Finish(t, Response(tasks[t].kind, tasks[t].job, 500))
            /\ summaries' = summaries
       ELSE /\ summaries' = IF tasks[t].pc = "inval_remove"
                            THEN delete_summary(tasks[t].job) ELSE summaries
            /\ Finish(t, Response(tasks[t].kind, tasks[t].job, 200))
    /\ UNCHANGED <<app, export_jobs, exports, jobs, uploads, transcripts, edited, accepted>>

\* get_summary: get_cached_summary, exists() and then the read; a read of a
\* file that is gone raises: api/v1 answers 500, main.py generates a summary
SummaryCache(t) ==
    /\ tasks[t].kind = "summary" /\ tasks[t].pc \in {"cache_exists", "cache_read"}
    /\ IF tasks[t].job \in DOMAIN summaries
       THEN IF tasks[t].pc = "cache_exists"
            THEN tasks' = SetPc(t, "cache_read") /\ resp' = resp
            ELSE Finish(t, Response("summary", tasks[t].job, 200))
       ELSE IF tasks[t].pc = "cache_read" /\ app = "v2"
       THEN Finish(t, Response("summary", tasks[t].job, 500))
       ELSE tasks' = SetPc(t, "path_e") /\ resp' = resp
    /\ UNCHANGED <<app, export_jobs, exports, jobs, fileVars, accepted>>

\* get_transcript_path: exists(edited_path), then exists(original_path), 404
\* when neither exists
SummaryResolve(t) ==
    /\ tasks[t].kind \in {"summary", "summarize"} /\ tasks[t].pc \in {"path_e", "path_c"}
    /\ LET where == IF tasks[t].pc = "path_e" THEN "edited" ELSE "canonical"
       IN  IF HasTranscript(where, tasks[t].arg)
           THEN tasks' = [tasks EXCEPT ![t].pc = "read", ![t].data = where] /\ resp' = resp
           ELSE IF tasks[t].pc = "path_e"
           THEN tasks' = SetPc(t, "path_c") /\ resp' = resp
           ELSE Finish(t, Response(tasks[t].kind, tasks[t].job, 404))
    /\ UNCHANGED <<app, export_jobs, exports, jobs, fileVars, accepted>>

\* the transcript file is read
SummaryRead(t) ==
    /\ tasks[t].kind \in {"summary", "summarize"} /\ tasks[t].pc = "read"
    /\ IF HasTranscript(tasks[t].data, tasks[t].arg)
       THEN /\ tasks' = [tasks EXCEPT ![t].pc = "llm",
                           ![t].text = ReadTranscript(tasks[t].data, tasks[t].arg)]
            /\ resp' = resp
       ELSE Finish(t, Response(tasks[t].kind, tasks[t].job, 500))
    /\ UNCHANGED <<app, export_jobs, exports, jobs, fileVars, accepted>>

\* summary = await summarize(formatted_transcript): the LLM answers, or 503
SummaryLLM(t) ==
    /\ tasks[t].kind \in {"summary", "summarize"} /\ tasks[t].pc = "llm"
    /\ \E ok \in BOOLEAN :
          IF ok
          THEN tasks' = SetPc(t, "save") /\ resp' = resp
          ELSE Finish(t, Response(tasks[t].kind, tasks[t].job, 503))
    /\ UNCHANGED <<app, export_jobs, exports, jobs, fileVars, accepted>>

\* save_summary: the summary is written to summary/<uuid>.txt and returned
SummarySave(t) ==
    /\ tasks[t].kind \in {"summary", "summarize"} /\ tasks[t].pc = "save"
    /\ summaries' = write_file(summaries, tasks[t].job, Summary(tasks[t].text))
    /\ Finish(t, Response(tasks[t].kind, tasks[t].job, 200))
    /\ UNCHANGED <<app, export_jobs, exports, jobs, uploads, transcripts, edited, accepted>>

CacheStep(t) ==
    \/ EditWrite(t)
    \/ SpeakersResolve(t)
    \/ SpeakersRead(t)
    \/ SpeakersWrite(t)
    \/ Invalidate(t)
    \/ SummaryCache(t)
    \/ SummaryResolve(t)
    \/ SummaryRead(t)
    \/ SummaryLLM(t)
    \/ SummarySave(t)

\* Job 1 as a finished alignment leaves it
CompletedJob ==
    [JobRow(AudioA, 200, "h1", "completed", 1) EXCEPT
        !.current_step_progress = 100,
        !.transcription_data = "asr",
        !.diarization_data = "turns"]

InitCache ==
    /\ app \in Apps
    /\ jobs = [j \in {1} |-> CompletedJob]
    /\ uploads = [k \in {AudioA} |-> Raw("h1")]
    /\ transcripts = [k \in {TranscriptKey(AudioA)} |-> Transcript(0, 0)]
    /\ edited = EmptyFiles
    /\ summaries = EmptyFiles
    /\ export_jobs = EmptyFiles
    /\ exports = EmptyFiles
    /\ tasks = [t \in TaskIds |-> Idle]
    /\ accepted = [j \in JobIds |-> [s \in Stages |-> IF j = 1 THEN 1 ELSE 0]]
    /\ resp = NoResponse

NextCache ==
    \/ \E j \in JobIds, transcript \in EditInputs : update_transcript(j, transcript)
    \/ \E j \in JobIds, mapping \in SpeakerMappings : update_speakers(j, mapping)
    \/ \E j \in JobIds : get_summary(j)
    \/ \E j \in JobIds : create_summary(j)
    \/ \E t \in TaskIds : CacheStep(t)

SpecCache == InitCache /\ [][NextCache]_vars

\* ------------------------------------------------------------------------
\* Claims about the summary cache
\* ------------------------------------------------------------------------
\* an edit of the transcript (PATCH transcripts or PATCH speakers) returns success
EditReturns(t) ==
    /\ tasks[t].kind \in {"edit", "speakers"}
    /\ tasks'[t].kind = "idle"
    /\ resp'.code = 200

\* C9: when a PATCH transcripts or PATCH speakers request returns success,
\* no summary cache file exists for its Job. The claim is about the state in
\* which the request returns; a summary that a generation in flight saves
\* afterwards is the subject of C10.
C9_EditLeavesNoSummary ==
    [][\A t \in TaskIds :
          EditReturns(t) => tasks[t].job \notin DOMAIN summaries']_vars

\* a transcript edit has returned success for Job 1 and the cache file is
\* gone, while a GET summaries that saw the file exist has yet to read it
C9_Witness ==
    /\ resp \in {Response("edit", 1, 200), Response("speakers", 1, 200)}
    /\ 1 \notin DOMAIN summaries
    /\ \E t \in TaskIds : tasks[t].kind = "summary" /\ tasks[t].pc = "cache_read"

\* the transcript a summary request would read now
CurrentTranscript(uuid) ==
    LET key == TranscriptKey(jobs[uuid].file_name)
    IN  ReadTranscript(get_transcript_path(key), key)

\* C10: once every transcript edit of a Job has returned, a GET summaries that
\* returns the cached summary returns one computed from the Job's transcript
\* as it is after the edits, whatever summary generations were in flight.
C10_NoStaleSummary ==
    [][\A t \in TaskIds :
          (/\ tasks[t].kind = "summary" /\ tasks[t].pc = "cache_read"
           /\ tasks'[t].kind = "idle" /\ resp'.code = 200
           /\ \A u \in TaskIds : tasks[u].kind \notin {"edit", "speakers"})
          => summaries[tasks[t].job] = Summary(CurrentTranscript(tasks[t].job))]_vars

\* ------------------------------------------------------------------------
\* Export jobs (main.py create_export_job, process_export_job;
\* api/v1/export_jobs.py; database.py export_jobs functions)
\* ------------------------------------------------------------------------
\* export jobs created in one run
MaxExports == 2

ExportIds == 1 .. MaxExports

\* CreateExportRequest.export_type: pattern ^(pdf|markdown)$
ExportTypes == {"pdf", "markdown"}

\* add_export_job: INSERT INTO export_jobs (uuid, job_uuid, export_type, status_code)
ExportRow(job_uuid, export_type, status_code, created_at) ==
    [job_uuid |-> job_uuid,
     export_type |-> export_type,
     status_code |-> status_code,
     progress_percentage |-> 0,
     error_message |-> NULL,
     file_path |-> 0,
     created_at |-> created_at]

\* update_export_status, update_export_progress, update_export_file_path:
\* UPDATE export_jobs SET <column> = $1 WHERE uuid = $2 (no row, no change)
update_export(uuid, column, value) ==
    IF uuid \in DOMAIN export_jobs
    THEN [export_jobs EXCEPT ![uuid][column] = value]
    ELSE export_jobs

\* an error handler that records the message only
update_export_error_message_only(uuid, error_message) ==
    update_export(uuid, "error_message", error_message)

\* update_export_error: SET status_code = 500, error_message = $1
update_export_error(uuid, error_message) ==
    IF uuid \in DOMAIN export_jobs
    THEN [export_jobs EXCEPT ![uuid].status_code = 500,
                             ![uuid].error_message = error_message]
    ELSE export_jobs

\* POST /jobs/{uuid}/exports: job = await get_job(uuid). main.py rejects a Job
\* whose status_code is not 200. api/v1/export_jobs.py checks nothing and then
\* reads request.format, an attribute CreateExportRequest (models.py, field
\* export_type) does not have: the handler raises before it inserts a row
create_export_job(uuid, export_type) ==
    /\ FreeSlots # {}
    /\ ExportIds \ (DOMAIN export_jobs \cup {tasks[t].export : t \in TaskIds}) # {}
    /\ IF uuid \notin DOMAIN jobs
       THEN resp' = Response("export", uuid, 404) /\ tasks' = tasks
       ELSE IF app = "v2"
       THEN resp' = Response("export", uuid, 500) /\ tasks' = tasks
       ELSE IF jobs[uuid].status_code # 200
       THEN resp' = Response("export", uuid, 400) /\ tasks' = tasks
       ELSE /\ tasks' = Spawn([Idle EXCEPT
                       !.kind = "export", !.job = uuid, !.pc = "insert",
                       !.data = export_type,
                       !.export = CHOOSE e \in ExportIds :
                           e \notin DOMAIN export_jobs \cup {tasks[t].export : t \in TaskIds}])
            /\ resp' = resp
    /\ UNCHANGED <<app, export_jobs, exports, jobs, fileVars, accepted>>

\* await add_export_job(export_uuid, uuid, export_type, 202), then
\* background_tasks.add_task(process_export_job, ...) and the 202 response;
\* the INSERT of a row whose Job is gone violates the foreign key
CreateExportInsert(t) ==
    /\ tasks[t].kind = "export" /\ tasks[t].pc = "insert"
    /\ IF tasks[t].job \in DOMAIN jobs
       THEN /\ export_jobs' = [e \in DOMAIN export_jobs \cup {tasks[t].export} |->
                                 IF e = tasks[t].export
                                 THEN ExportRow(tasks[t].job, tasks[t].data, 202, now)
                                 ELSE export_jobs[e]]
            /\ tasks' = SetPc(t, "p10")
            /\ resp' = Response("export", tasks[t].job, 202)
       ELSE /\ export_jobs' = export_jobs
            /\ Finish(t, Response("export", tasks[t].job, 500))
    /\ UNCHANGED <<app, exports, jobs, fileVars, accepted>>

\* await update_export_progress(export_uuid, 10 / 20 / 40 / 60 / 90)
ExportProgress(t) ==
    /\ tasks[t].kind = "export" /\ tasks[t].pc \in {"p10", "p20", "p40", "p60", "p90"}
    /\ LET step == CASE tasks[t].pc = "p10" -> <<10, "job">>
                     [] tasks[t].pc = "p20" -> <<20, "tr_e">>
                     [] tasks[t].pc = "p40" -> <<40, "summary">>
                     [] tasks[t].pc = "p60" -> <<60, "generate">>
                     [] tasks[t].pc = "p90" -> <<90, "write">>
       IN  /\ export_jobs' = update_export(tasks[t].export, "progress_percentage", step[1])
           /\ tasks' = SetPc(t, step[2])
    /\ UNCHANGED <<app, exports, jobs, fileVars, accepted, resp>>

\* job = await get_job(job_uuid); if not job: raise ValueError
ExportGetJob(t) ==
    /\ tasks[t].kind = "export" /\ tasks[t].pc = "job"
    /\ tasks' = IF tasks[t].job \in DOMAIN jobs
                THEN [tasks EXCEPT ![t].pc = "p20",
                                   ![t].arg = TranscriptKey(jobs[tasks[t].job].file_name)]
                ELSE SetPc(t, "error")
    /\ UNCHANGED <<app, export_jobs, exports, jobs, fileVars, accepted, resp>>

\* transcript_response = await get_transcript(job_uuid): exists(edited_path),
\* exists(original_path), the read; HTTPException 404 when neither exists
ExportTranscript(t) ==
    /\ tasks[t].kind = "export" /\ tasks[t].pc \in {"tr_e", "tr_c", "read_e", "read_c"}
    /\ LET where == IF tasks[t].pc \in {"tr_e", "read_e"} THEN "edited" ELSE "canonical"
       IN  tasks' =
             IF tasks[t].pc \in {"read_e", "read_c"}
             THEN IF HasTranscript(where, tasks[t].arg)
                  THEN [tasks EXCEPT ![t].pc = "p40",
                                     ![t].text = ReadTranscript(where, tasks[t].arg)]
                  ELSE SetPc(t, "error")
             ELSE IF HasTranscript(where, tasks[t].arg)
             THEN SetPc(t, IF where = "edited" THEN "read_e" ELSE "read_c")
             ELSE SetPc(t, IF where = "edited" THEN "tr_c" ELSE "error")
    /\ UNCHANGED <<app, export_jobs, exports, jobs, fileVars, accepted, resp>>

\* summary_response = await get_summary(job_uuid, regenerate=False): the cached
\* summary, or a summary the LLM writes, which is cached; on HTTPException
\* the export goes on with "No summary available."
ExportSummary(t) ==
    /\ tasks[t].kind = "export" /\ tasks[t].pc \in {"summary", "llm"}
    /\ IF tasks[t].pc = "summary"
       THEN /\ tasks' = SetPc(t, IF tasks[t].job \in DOMAIN summaries THEN "p60" ELSE "llm")
            /\ summaries' = summaries
       ELSE \E ok \in BOOLEAN :
              /\ summaries' = IF ok THEN write_file(summaries, tasks[t].job, Summary(tasks[t].text))
                              ELSE summaries
              /\ tasks' = SetPc(t, "p60")
    /\ UNCHANGED <<app, export_jobs, exports, jobs, uploads, transcripts, edited, accepted, resp>>

\* the document is generated (the PDF in the executor) and written to
\* exports/<export_uuid>.<ext>; either may raise
ExportGenerate(t) ==
    /\ tasks[t].kind = "export" /\ tasks[t].pc \in {"generate", "write"}
    /\ \E ok \in BOOLEAN :
         IF ~ok
         THEN tasks' = SetPc(t, "error") /\ exports' = exports
         ELSE IF tasks[t].pc = "generate"
         THEN tasks' = SetPc(t, "p90") /\ exports' = exports
         ELSE /\ tasks' = SetPc(t, "path")
              /\ exports' = write_file(exports, tasks[t].export, tasks[t].text)
    /\ UNCHANGED <<app, export_jobs, jobs, fileVars, accepted, resp>>

\* await update_export_file_path(export_uuid, str(file_path)), then
\* update_export_progress(export_uuid, 100), then update_export_status(export_uuid, 200)
ExportFinish(t) ==
    /\ tasks[t].kind = "export" /\ tasks[t].pc \in {"path", "p100", "status"}
    /\ export_jobs' =
         CASE tasks[t].pc = "path" -> update_export(tasks[t].export, "file_path", tasks[t].export)
           [] tasks[t].pc = "p100" -> update_export(tasks[t].export, "progress_percentage", 100)
           [] tasks[t].pc = "status" -> update_export(tasks[t].export, "status_code", 200)
    /\ tasks' = CASE tasks[t].pc = "path" -> SetPc(t, "p100")
                  [] tasks[t].pc = "p100" -> SetPc(t, "status")
                  [] tasks[t].pc = "status" -> [tasks EXCEPT ![t] = Idle]
    /\ UNCHANGED <<app, exports, jobs, fileVars, accepted, resp>>

\* except Exception as e: await update_export_error(export_uuid, str(e))
ExportError(t) ==
    /\ tasks[t].kind = "export" /\ tasks[t].pc = "error"
    /\ export_jobs' = update_export_error(tasks[t].export, "Export failed")
    /\ tasks' = [tasks EXCEPT ![t] = Idle]
    /\ UNCHANGED <<app, exports, jobs, fileVars, accepted, resp>>

ExportStep(t) ==
    \/ CreateExportInsert(t)
    \/ ExportProgress(t)
    \/ ExportGetJob(t)
    \/ ExportTranscript(t)
    \/ ExportSummary(t)
    \/ ExportGenerate(t)
    \/ ExportFinish(t)
    \/ ExportError(t)

\* the steps of the alignment task among the stage task steps
AlignStep(t) ==
    /\ tasks[t].kind = "align"
    /\ \/ TaskBegin(t)
       \/ TaskProgress10(t)
       \/ TaskLoadTranscription(t)
       \/ TaskLoadDiarization(t)
       \/ TaskProgress30(t)
       \/ TaskProgress50(t)
       \/ TaskProgress80(t)
       \/ TaskWriteTranscript(t)
       \/ TaskProgress100(t)
       \/ TaskSetDone(t)
       \/ TaskStatus200(t)
       \/ TaskErrorMessage(t)
       \/ TaskErrorState(t)

\* Job 1 as a finished diarization leaves it
InitExport ==
    /\ app \in Apps
    /\ jobs = [j \in {1} |->
                 [JobRow(AudioA, CreatedStatus, "h1", "diarized", 1) EXCEPT
                     !.current_step_progress = 100,
                     !.transcription_data = "asr",
                     !.diarization_data = "turns"]]
    /\ uploads = [k \in {AudioA} |-> Raw("h1")]
    /\ transcripts = EmptyFiles
    /\ edited = EmptyFiles
    /\ summaries = EmptyFiles
    /\ export_jobs = EmptyFiles
    /\ exports = EmptyFiles
    /\ tasks = [t \in TaskIds |-> Idle]
    /\ accepted = [j \in JobIds |-> [s \in Stages |-> IF s = "align" \/ j # 1 THEN 0 ELSE 1]]
    /\ resp = NoResponse

NextExport ==
    \/ \E j \in JobIds : start_alignment(j)
    \/ \E t \in TaskIds : AlignStep(t)
    \/ \E j \in JobIds, export_type \in ExportTypes : create_export_job(j, export_type)
    \/ \E t \in TaskIds : ExportStep(t)

SpecExport == InitExport /\ [][NextExport]_vars

\* C12: an export request is admitted (its ExportJob about to be inserted and
\* its generator task enqueued) only for a Job whose workflow_state is
\* 'completed' when the request is handled.
C12_ExportOnlyOfCompleted ==
    [][\A t \in TaskIds :
          (tasks[t].kind = "idle" /\ tasks'[t].kind = "export")
          => jobs[tasks'[t].job].workflow_state = "completed"]_vars

\* the export task of slot t ends and its ExportJob is still in the store
ExportTaskEnds(t) ==
    /\ tasks[t].kind = "export" /\ tasks[t].pc # "insert"
    /\ tasks'[t].kind = "idle"
    /\ tasks[t].export \in DOMAIN export_jobs'

transcript_paths_canonical_first == <<"canonical", "edited">>

transcript_paths == <<"edited", "canonical">>

\* TranscriptResponse(status_code=200, full_transcript=..., is_edited=...)
TranscriptResponse(uuid, where, full_transcript) ==
    [Response("transcript", uuid, 200) EXCEPT
        !.full_transcript = full_transcript, !.is_edited = (where = "edited")]

\* GET /jobs/{uuid}/transcript
get_transcript(uuid) == Arrive("transcript", uuid, "exists", NoTranscript, <<>>)

\* get_transcript: exists(edited_path), the read; exists(original_path), the
\* read; 404 when neither exists. A read of a file that is gone raises: 500.
\* found counts the paths the handler has looked at and not found
GetTranscript(t) ==
    /\ tasks[t].kind = "transcript" /\ tasks[t].pc \in {"exists", "read"}
    /\ LET where == transcript_paths[tasks[t].found + 1]
       IN  IF HasTranscript(where, tasks[t].arg)
           THEN IF tasks[t].pc = "exists"
                THEN tasks' = SetPc(t, "read") /\ resp' = resp
                ELSE Finish(t, TranscriptResponse(tasks[t].job, where,
                                                  ReadTranscript(where, tasks[t].arg)))
           ELSE IF tasks[t].pc = "read"
           THEN Finish(t, Response("transcript", tasks[t].job, 500))
           ELSE IF tasks[t].found + 1 < Len(transcript_paths)
           THEN tasks' = [tasks EXCEPT ![t].found = @ + 1] /\ resp' = resp
           ELSE Finish(t, Response("transcript", tasks[t].job, 404))
    /\ UNCHANGED <<app, export_jobs, exports, jobs, fileVars, accepted>>

\* update_file_name: UPDATE jobs SET file_name = $1 WHERE uuid = $2
update_file_name(uuid, new_file_name) ==
    IF uuid \in DOMAIN jobs
    THEN UpdateRow(uuid, [jobs[uuid] EXCEPT !.file_name = new_file_name])
    ELSE jobs

\* RenameJobRequest.file_name, as sanitize_filename leaves it
RenameNames == {AudioA, FileName("b", <<>>, "wav")}

\* a directory after aiofiles.os.rename(old, new)
rename_file(dir, old, new) == write_file(remove_file(dir, old), new, dir[old])

\* PATCH /jobs/{uuid}: job = await get_job(uuid); 404 without the Job
rename_job(uuid, new_name) ==
    /\ FreeSlots # {}
    /\ IF uuid \notin DOMAIN jobs
       THEN resp' = Response("rename", uuid, 404) /\ tasks' = tasks
       ELSE /\ tasks' = Spawn([Idle EXCEPT
                       !.kind = "rename", !.job = uuid, !.pc = "update",
                       !.arg = jobs[uuid].file_name, !.files = <<new_name>>])
            /\ resp' = resp
    /\ UNCHANGED <<app, export_jobs, exports, jobs, fileVars, accepted>>

\* unique_new_name = get_unique_filename(upload_dir, new_name): main.py passes
\* exclude_path=old_audio_path, api/v1 passes none; then update_file_name.
\* api/v1 returns success here; main.py answers 500 when no row was updated
\* and goes on to the files otherwise
RenameUpdate(t) ==
    /\ tasks[t].kind = "rename" /\ tasks[t].pc = "update"
    /\ LET unique_new_name ==
               get_unique_filename(DOMAIN uploads, Head(tasks[t].files),
                                   IF app = "main" THEN tasks[t].arg ELSE NoName)
       IN  /\ jobs' = update_file_name(tasks[t].job, unique_new_name)
           /\ IF app = "v2"
              THEN Finish(t, Response("rename", tasks[t].job, 200))
              ELSE IF tasks[t].job \notin DOMAIN jobs
              THEN Finish(t, Response("rename", tasks[t].job, 500))
              ELSE /\ tasks' = [tasks EXCEPT ![t].pc = "exists_audio",
                                             ![t].files = <<unique_new_name>>]
                   /\ resp' = resp
    /\ UNCHANGED <<app, export_jobs, exports, fileVars, accepted>>

\* main.py update_job: if exists(old_audio_path): rename; if
\* exists(old_transcript_path): rename; the edited transcript is not looked
\* at. A rename of a file that is gone raises: 500
RenameFiles(t) ==
    /\ tasks[t].kind = "rename"
    /\ tasks[t].pc \in {"exists_audio", "rename_audio", "exists_transcript", "rename_transcript"}
    /\ LET old == tasks[t].arg
           new == Head(tasks[t].files)
           audio == tasks[t].pc \in {"exists_audio", "rename_audio"}
           there == IF audio THEN old \in DOMAIN uploads ELSE old \in DOMAIN transcripts
           after == IF audio THEN SetPc(t, "exists_transcript") ELSE [tasks EXCEPT ![t] = Idle]
           done == IF audio THEN resp ELSE Response("rename", tasks[t].job, 200)
       IN  IF tasks[t].pc \in {"exists_audio", "exists_transcript"}
           THEN /\ IF there
                   THEN tasks' = SetPc(t, IF audio THEN "rename_audio" ELSE "rename_transcript")
                        /\ resp' = resp
                   ELSE tasks' = after /\ resp' = done
                /\ UNCHANGED <<uploads, transcripts>>
           ELSE IF ~there
           THEN /\ Finish(t, Response("rename", tasks[t].job, 500))
                /\ UNCHANGED <<uploads, transcripts>>
           ELSE /\ uploads' = IF audio THEN rename_file(uploads, old, new) ELSE uploads
                /\ transcripts' = IF audio THEN transcripts
                                  ELSE rename_file(transcripts, old, new)
                /\ tasks' = after /\ resp' = done
    /\ UNCHANGED <<app, export_jobs, exports, jobs, edited, summaries, accepted>>

\* DELETE FROM jobs WHERE uuid = ANY(uuids); the export_jobs rows of a deleted
\* Job go with it (ON DELETE CASCADE of export_jobs.job_uuid)
delete_rows(uuids) == [j \in DOMAIN jobs \ uuids |-> jobs[j]]

cascade(uuids) ==
    [e \in {x \in DOMAIN export_jobs : export_jobs[x].job_uuid \notin uuids} |-> export_jobs[e]]

\* a file a handler looks for and removes: a directory, and the file's name
\* (uploads, transcripts) or id (summaries, exports)
FileItem(dir, name, id) == [dir |-> dir, name |-> name, id |-> id]

ItemExists(item) ==
    CASE item.dir = "uploads"     -> item.name \in DOMAIN uploads
      [] item.dir = "transcripts" -> item.name \in DOMAIN transcripts
      [] item.dir = "edited"      -> item.name \in DOMAIN edited
      [] item.dir = "summaries"   -> item.id \in DOMAIN summaries
      [] item.dir = "exports"     -> item.id \in DOMAIN exports

\* the files a handler removes for a Job: audio, canonical transcript, edited
\* transcript, summary; the sweep of services/cleanup_service.py removes the
\* first two only
JobFiles(uuid, file_name, all) ==
    LET key == TranscriptKey(file_name)
    IN  <<FileItem("uploads", file_name, 0), FileItem("transcripts", key, 0)>>
        \o (IF all THEN <<FileItem("edited", key, 0), FileItem("summaries", NoName, uuid)>>
            ELSE <<>>)

\* if not file_name: raise HTTPException(status_code=404)
JobNotFoundIgnored(uuid) == Response("delete", uuid, 200)

JobNotFound(uuid) == Response("delete", uuid, 404)

\* DELETE /jobs/{uuid}: file_name = await delete_job(uuid); 404 without the Job
delete_job(uuid) ==
    /\ FreeSlots # {}
    /\ IF uuid \notin DOMAIN jobs
       THEN /\ resp' = JobNotFound(uuid)
            /\ UNCHANGED <<tasks, jobs, export_jobs>>
       ELSE /\ jobs' = delete_rows({uuid})
            /\ export_jobs' = cascade({uuid})
            /\ tasks' = Spawn([Idle EXCEPT
                       !.kind = "delete", !.job = uuid, !.pc = "exists", !.data = "jobs",
                       !.arg = jobs[uuid].file_name,
                       !.files = JobFiles(uuid, jobs[uuid].file_name, TRUE)])
            /\ resp' = resp
    /\ UNCHANGED <<app, exports, fileVars, accepted>>

\* the Jobs in s, in a sequence
RECURSIVE RowsOf(_)
RowsOf(s) ==
    IF s = {} THEN <<>>
    ELSE LET j == CHOOSE x \in s : \A y \in s : x <= y
         IN  <<j>> \o RowsOf(s \ {j})

\* the files of the Jobs in rows, Job after Job
RECURSIVE FilesOf(_, _)
FilesOf(rows, all) ==
    IF rows = <<>> THEN <<>>
    ELSE JobFiles(Head(rows), jobs[Head(rows)].file_name, all) \o FilesOf(Tail(rows), all)

\* cleanup_old_jobs / cleanup_old_export_jobs at time clock:
\* WHERE created_at < NOW() - INTERVAL '1 hour' * max_age_hours
cleanup_old(table, max_age_hours, clock) ==
    {r \in DOMAIN table : table[r].created_at < clock - max_age_hours}

job_retention_hours == 12

export_retention_hours == 24

\* hours at which the sweep runs
SweepTimes == {10, 14, 27}

\* cleanup_expired_files, run by the cleanup worker at time clock. main.py
\* first removes the files of the upload directory that are not .wav and are
\* older than an hour. Then expired_jobs = await cleanup_old_jobs(12): main.py
\* returns when the list is empty, api/v1 goes on to the export jobs
cleanup_expired_files(clock) ==
    /\ FreeSlots # {}
    /\ \A t \in TaskIds : tasks[t].kind # "sweep"
    /\ LET expired_jobs == cleanup_old(jobs, job_retention_hours, clock)
           files == FilesOf(RowsOf(expired_jobs), app = "main")
       IN  /\ jobs' = delete_rows(expired_jobs)
           /\ export_jobs' = cascade(expired_jobs)
           /\ \E orphaned \in SUBSET {k \in DOMAIN uploads : k.ext # "wav"} :
                 uploads' = IF app = "main"
                            THEN [k \in DOMAIN uploads \ orphaned |-> uploads[k]]
                            ELSE uploads
           /\ tasks' = IF expired_jobs = {} /\ app = "main" THEN tasks
                       ELSE Spawn([Idle EXCEPT
                                !.kind = "sweep", !.found = clock,
                                !.pc = IF files = <<>> THEN "exports" ELSE "exists",
                                !.data = "jobs", !.files = files])
    /\ UNCHANGED <<app, exports, transcripts, edited, summaries, accepted, resp>>

\* cleanup_expired_files returns: a sweep run on its own is over, a sweep the
\* cleanup worker awaited goes back to the worker, which sleeps until the next
SweepReturn(t) ==
    IF tasks[t].kind = "worker"
    THEN [tasks EXCEPT ![t].pc = "sleep", ![t].data = NULL, ![t].files = <<>>]
    ELSE [tasks EXCEPT ![t] = Idle]

\* old_exports = await cleanup_old_export_jobs(24); the file of each returned
\* row that has a file_path is looked for and removed
SweepExports(t) ==
    /\ tasks[t].kind \in {"sweep", "worker"} /\ tasks[t].pc = "exports"
    /\ LET old_exports == cleanup_old(export_jobs, export_retention_hours, tasks[t].found)
           with_file == {e \in old_exports : export_jobs[e].file_path # 0}
           rows == RowsOf({export_jobs[e].file_path : e \in with_file})
           files == [i \in 1 .. Len(rows) |-> FileItem("exports", NoName, rows[i])]
       IN  /\ export_jobs' = [e \in DOMAIN export_jobs \ old_exports |-> export_jobs[e]]
           /\ tasks' = IF files = <<>> THEN SweepReturn(t)
                       ELSE [tasks EXCEPT ![t].pc = "exists", ![t].data = "exports",
                                          ![t].files = files]
    /\ UNCHANGED <<app, exports, jobs, fileVars, accepted, resp>>

\* DELETE /jobs/{uuid} and the sweep, file after file: if await exists(path):
\* await remove(path). A remove of a file that is gone raises: the delete of
\* api/v1 answers 500, the others log the error and go on
RemoveFiles(t) ==
    /\ tasks[t].kind \in {"delete", "sweep", "worker"} /\ tasks[t].pc \in {"exists", "remove"}
    /\ LET item == Head(tasks[t].files)
           rest == Tail(tasks[t].files)
           raises == tasks[t].pc = "remove" /\ ~ItemExists(item)
                     /\ tasks[t].kind = "delete" /\ app = "v2"
           removes == tasks[t].pc = "remove" /\ ItemExists(item)
           gone(dir) == removes /\ item.dir = dir
       IN  /\ uploads' = IF gone("uploads") THEN remove_file(uploads, item.name) ELSE uploads
           /\ transcripts' = IF gone("transcripts") THEN remove_file(transcripts, item.name)
                             ELSE transcripts
           /\ edited' = IF gone("edited") THEN remove_file(edited, item.name) ELSE edited
           /\ summaries' = IF gone("summaries") THEN remove_file(summaries, item.id)
                           ELSE summaries
           /\ exports' = IF gone("exports") THEN remove_file(exports, item.id) ELSE exports
           /\ IF raises
              THEN Finish(t, Response("delete", tasks[t].job, 500))
              ELSE IF tasks[t].pc = "exists" /\ ItemExists(item)
              THEN tasks' = SetPc(t, "remove") /\ resp' = resp
              ELSE IF rest # <<>>
              THEN tasks' = [tasks EXCEPT ![t].pc = "exists", ![t].files = rest] /\ resp' = resp
              ELSE IF tasks[t].kind = "delete"
              THEN Finish(t, Response("delete", tasks[t].job, 200))
              ELSE /\ tasks' = IF tasks[t].data = "jobs"
                               THEN [tasks EXCEPT ![t].pc = "exports", ![t].files = rest]
                               ELSE SweepReturn(t)
                   /\ resp' = resp
    /\ UNCHANGED <<app, export_jobs, jobs, accepted>>

\* the steps of the transcript edits among the steps of the cache handlers
EditStep(t) ==
    /\ tasks[t].kind \in {"edit", "speakers"}
    /\ \/ EditWrite(t)
       \/ SpeakersResolve(t)
       \/ SpeakersRead(t)
       \/ SpeakersWrite(t)
       \/ Invalidate(t)

\* Job 1, created at hour 1. Either its alignment is still to come (no
\* transcript yet), or it is completed, with or without an edited transcript,
\* a cached summary and (main.py, whose export requests succeed) an export
\* finished at hour 2
InitManage ==
    /\ app \in Apps
    /\ uploads = [k \in {AudioA} |-> Raw("h1")]
    /\ \E aligned \in BOOLEAN :
          /\ jobs = [j \in {1} |->
                       IF aligned THEN CompletedJob
                       ELSE [CompletedJob EXCEPT !.workflow_state = "diarized",
                                                 !.status_code = CreatedStatus]]
          /\ transcripts = IF aligned
                           THEN [k \in {TranscriptKey(AudioA)} |-> Transcript(0, 0)]
                           ELSE EmptyFiles
          /\ edited \in {EmptyFiles} \cup
                        {[k \in {TranscriptKey(AudioA)} |-> e] : e \in EditInputs}
          /\ aligned \/ edited = EmptyFiles
          /\ \E current \in {IF edited # EmptyFiles THEN edited[TranscriptKey(AudioA)]
                             ELSE IF aligned THEN transcripts[TranscriptKey(AudioA)]
                             ELSE NoTranscript} :
                /\ summaries \in IF aligned
                                  THEN {EmptyFiles, [j \in {1} |-> Summary(current)]}
                                  ELSE {EmptyFiles}
                /\ \E exported \in (IF app = "main" /\ aligned THEN BOOLEAN ELSE {FALSE}) :
                      /\ export_jobs =
                           IF exported
                           THEN [e \in {1} |->
                                   [ExportRow(1, "pdf", 200, 2) EXCEPT
                                       !.progress_percentage = 100, !.file_path = 1]]
                           ELSE EmptyFiles
                      /\ exports = IF exported THEN [e \in {1} |-> current] ELSE EmptyFiles
    /\ tasks = [t \in TaskIds |-> Idle]
    /\ accepted = [j \in JobIds |-> [s \in Stages |-> IF j = 1 THEN 1 ELSE 0]]
    /\ resp = NoResponse

\* transcript edits, reads and the delete of the Job
NextTranscript ==
    \/ \E j \in JobIds, transcript \in EditInputs : update_transcript(j, transcript)
    \/ \E j \in JobIds, mapping \in SpeakerMappings : update_speakers(j, mapping)
    \/ \E j \in JobIds : get_transcript(j)
    \/ \E j \in JobIds : delete_job(j)
    \/ \E t \in TaskIds : EditStep(t) \/ GetTranscript(t) \/ RemoveFiles(t)

SpecTranscript == InitManage /\ [][NextTranscript]_vars

\* renames of the Job
NextRename ==
    \/ \E j \in JobIds, new_name \in RenameNames : rename_job(j, new_name)
    \/ \E t \in TaskIds : RenameUpdate(t) \/ RenameFiles(t)

SpecRename == InitManage /\ [][NextRename]_vars

\* the retention sweep, with transcript edits and reads going on
NextSweep ==
    \/ \E clock \in SweepTimes : cleanup_expired_files(clock)
    \/ \E j \in JobIds, transcript \in EditInputs : update_transcript(j, transcript)
    \/ \E j \in JobIds, mapping \in SpeakerMappings : update_speakers(j, mapping)
    \/ \E j \in JobIds : get_transcript(j)
    \/ \E t \in TaskIds : EditStep(t) \/ GetTranscript(t) \/ RemoveFiles(t) \/ SweepExports(t)

SpecSweep == InitManage /\ [][NextSweep]_vars

\* ------------------------------------------------------------------------
\* Claims about delete, rename, speaker rename and the transcript read
\* ------------------------------------------------------------------------
\* DELETE /jobs/{id} returns success
DeleteReturns(t) ==
    /\ tasks[t].kind = "delete"
    /\ tasks'[t].kind = "idle"
    /\ resp'.code = 200

\* C11: when DELETE /jobs/{id} returns success, the Job row and every
\* ExportJob row of the Job are absent from the store, and none of the Job's
\* audio file, canonical transcript, edited transcript, summary file or export
\* files is on disk. The rows of the Job's ExportJobs are gone by then, so an
\* export file of the Job is an export file whose ExportJob is not in the store.
C11_DeleteLeavesNothing ==
    [][\A t \in TaskIds :
          DeleteReturns(t)
          => LET uuid == tasks[t].job
                 key == TranscriptKey(tasks[t].arg)
             IN  /\ uuid \notin DOMAIN jobs'
                 /\ \A e \in DOMAIN export_jobs' : export_jobs'[e].job_uuid # uuid
                 /\ tasks[t].arg \notin DOMAIN uploads'
                 /\ key \notin DOMAIN transcripts'
                 /\ key \notin DOMAIN edited'
                 /\ uuid \notin DOMAIN summaries'
                 /\ \A e \in DOMAIN exports' : e \in DOMAIN export_jobs']_vars

\* PATCH /jobs/{id} (rename) returns success
RenameReturns(t) ==
    /\ tasks[t].kind = "rename"
    /\ tasks'[t].kind = "idle"
    /\ resp'.code = 200
    /\ tasks[t].job \in DOMAIN jobs'

\* C15: when a rename returns success, the Job's audio file is stored under
\* the path derived from the Job's file_name as it is now, and none of its
\* audio file, canonical transcript and edited transcript is left under a path
\* derived from the old name: GET audio and GET transcripts find what they
\* found before the rename.
C15_RenameKeepsFilesReachable ==
    [][\A t \in TaskIds :
          RenameReturns(t)
          => LET old == tasks[t].arg
                 new == jobs'[tasks[t].job].file_name
             IN  /\ new \in DOMAIN uploads'
                 /\ new # old => /\ old \notin DOMAIN uploads'
                                 /\ TranscriptKey(old) \notin DOMAIN transcripts'
                                 /\ TranscriptKey(old) \notin DOMAIN edited']_vars

\* the rename handler of slot t, asked for the name its Job has, picks the
\* name to store and updates the row
RenameToOwnName(t) ==
    /\ tasks[t].kind = "rename" /\ tasks[t].pc = "update"
    /\ tasks'[t].pc # "update"
    /\ tasks[t].job \in DOMAIN jobs
    /\ Head(tasks[t].files) = tasks[t].arg
    /\ jobs[tasks[t].job].file_name = tasks[t].arg

\* C16: a rename to the Job's current file_name is a no-op: the name it
\* stores (and returns) is that same name, and the Job record and all files
\* are left as they were.
C16_RenameToOwnNameIsNoOp ==
    [][\A t \in TaskIds :
          RenameToOwnName(t)
          => /\ jobs'[tasks[t].job].file_name = tasks[t].arg
             /\ jobs' = jobs
             /\ uploads' = uploads]_vars

\* the speaker rename of slot t writes a transcript file
SpeakersWrites(t) ==
    /\ tasks[t].kind = "speakers" /\ tasks[t].pc = "write"
    /\ tasks'[t].pc # "write"

\* C17: a speaker rename writes, to the edited path, the Job's current
\* transcript (the edited one when it exists, otherwise the canonical one)
\* with the mapping applied: the transcript a read finds afterwards is the one
\* it found before, relabelled, and the segment texts of an earlier PATCH
\* transcripts are still in it.
C17_SpeakerRenameKeepsEdits ==
    [][\A t \in TaskIds :
          SpeakersWrites(t)
          => LET key == tasks[t].arg
                 current == ReadTranscript(get_transcript_path(key), key)
             IN  /\ key \in DOMAIN edited'
                 /\ edited'[key] = apply_mapping(current, Head(tasks[t].files).mapping)]_vars

\* the GET transcript handler of slot t takes a step
GetTranscriptSteps(t) ==
    /\ tasks[t].kind = "transcript"
    /\ \/ tasks'[t].kind = "idle"
       \/ tasks'[t].pc # tasks[t].pc
       \/ tasks'[t].found # tasks[t].found

\* the handler of slot t returns with this response
Returns(t, response) ==
    /\ tasks'[t].kind = "idle"
    /\ resp'.op = response.op /\ resp'.job = response.job /\ resp'.code = response.code
    /\ resp'.full_transcript = response.full_transcript
    /\ resp'.is_edited = response.is_edited

SweepEnds(t) ==
    /\ tasks[t].kind = "sweep"
    /\ tasks'[t].kind = "idle"

\* C19: when a retention sweep ends, no Job older than job_retention_hours is
\* in the store, and no audio file, canonical transcript, edited transcript or
\* summary file of a Job it removed is on disk: every such file on disk is a
\* file of a Job in the store.
C19_SweepLeavesNothing ==
    [][\A t \in TaskIds :
          SweepEnds(t)
          => LET names == {jobs'[j].file_name : j \in DOMAIN jobs'}
                 keys == {TranscriptKey(n) : n \in names}
             IN  /\ \A j \in DOMAIN jobs' :
                       ~(jobs'[j].created_at < tasks[t].found - job_retention_hours)
                 /\ DOMAIN uploads' \subseteq names
                 /\ DOMAIN transcripts' \subseteq keys
                 /\ DOMAIN edited' \subseteq keys
                 /\ DOMAIN summaries' \subseteq DOMAIN jobs']_vars

\* the sweep of slot t, which runs at hour clock, removes row e from the
\* table export_jobs
SweepRemovesExport(t, clock, e) ==
    /\ tasks[t].kind = "sweep" \/ (tasks[t].kind = "idle" /\ tasks'[t].kind = "sweep")
    /\ clock = IF tasks[t].kind = "sweep" THEN tasks[t].found ELSE tasks'[t].found
    /\ e \in DOMAIN export_jobs /\ e \notin DOMAIN export_jobs'

\* C20: a retention sweep removes from the store every ExportJob older than
\* export_retention_hours (none is left when the sweep ends), and it deletes
\* the file of each such row it removes: at the step that removes the row the
\* file is among the files the sweep goes on to remove.
C20_SweepRemovesExportFiles ==
    [][\A t \in TaskIds :
          /\ SweepEnds(t)
             => \A e \in DOMAIN export_jobs' :
                   ~(export_jobs'[e].created_at < tasks[t].found - export_retention_hours)
          /\ \A clock \in SweepTimes, e \in ExportIds :
                (/\ SweepRemovesExport(t, clock, e)
                 /\ export_jobs[e].created_at < clock - export_retention_hours
                 /\ export_jobs[e].file_path \in DOMAIN exports)
                => \E i \in 1 .. Len(tasks'[t].files) :
                      /\ tasks'[t].files[i].dir = "exports"
                      /\ tasks'[t].files[i].id = export_jobs[e].file_path]_vars

\* ------------------------------------------------------------------------
\* Alignment of ASR segments with speaker turns
\* (services/alignment_service.py align; main.py process_alignment_step)
\* ------------------------------------------------------------------------
\* segments of a transcription, turns of a diarization
MaxSegments == 2

MaxTurns == 2

\* times, in thousandths of a second
AlignTimes == {0, 4, 10, 16}

\* f"{seconds:.2f}": the time rounded to hundredths of a second, as
\* "<whole>.<two digits>" (no time of AlignTimes lies halfway)
format_2f(thousandths) ==
    LET hundredths == (thousandths + 5) \div 10
    IN  [whole |-> hundredths \div 100, frac |-> hundredths % 100]

\* the text of a segment: Whisper's texts may begin with a blank
SegmentTexts == {[body |-> "u", blanks |-> TRUE], [body |-> "v", blanks |-> FALSE]}

\* str.strip()
strip(text) == [text EXCEPT !.blanks = FALSE]

\* labels of the diarization pipeline
SpeakerLabels == {"SPEAKER_00", "SPEAKER_01"}

\* assigned_speaker = "SPEAKER_00"  # default
default_speaker_unknown == "UNKNOWN"

default_speaker == "SPEAKER_00"

\* if overlap > max_overlap
better_or_equal(overlap, max_overlap) == overlap >= max_overlap

better(overlap, max_overlap) == overlap > max_overlap

\* overlap = max(0, min(seg_end, spk_end) - max(seg_start, spk_start))
Overlap(seg, spk) ==
    LET overlap_start == IF seg.start >= spk.start THEN seg.start ELSE spk.start
        overlap_end == IF seg.end <= spk.end THEN seg.end ELSE spk.end
    IN  IF overlap_end - overlap_start > 0 THEN overlap_end - overlap_start ELSE 0

\* for spk_seg in speaker_segments: the speaker of the first turn whose
\* overlap is greater than that of every turn before it
RECURSIVE assign_speaker(_, _, _, _)
assign_speaker(seg, speaker_segments, assigned_speaker, max_overlap) ==
    IF speaker_segments = <<>> THEN assigned_speaker
    ELSE LET spk_seg == Head(speaker_segments)
         IN  IF better(Overlap(seg, spk_seg), max_overlap)
             THEN assign_speaker(seg, Tail(speaker_segments),
                                 spk_seg.speaker, Overlap(seg, spk_seg))
             ELSE assign_speaker(seg, Tail(speaker_segments), assigned_speaker, max_overlap)

\* for text_seg in text_segments: aligned_transcript.append({...})
aligned_transcript(text_segments, speaker_segments) ==
    [i \in 1 .. Len(text_segments) |->
        [speaker |-> assign_speaker(text_segments[i], speaker_segments, default_speaker, 0),
         text |-> strip(text_segments[i].text),
         start |-> format_2f(text_segments[i].start),
         end |-> format_2f(text_segments[i].end)]]

\* sequences of at most n elements of s
SeqsUpTo(s, n) == UNION {[1 .. k -> s] : k \in 0 .. n}

\* transcriptions: segments in the order the model emits them, by start
Transcriptions ==
    LET segs == {[start |-> a, end |-> b, text |-> x] :
                    a \in AlignTimes, b \in AlignTimes, x \in SegmentTexts}
    IN  {q \in SeqsUpTo({g \in segs : g.start < g.end}, MaxSegments) :
            \A i \in 1 .. Len(q) - 1 : q[i].start <= q[i + 1].start}

\* diarizations: the turns in the order of Annotation.itertracks, by start
Diarizations ==
    LET turns == {[start |-> a, end |-> b, speaker |-> x] :
                     a \in AlignTimes, b \in AlignTimes, x \in SpeakerLabels}
    IN  {q \in SeqsUpTo({g \in turns : g.start < g.end}, MaxTurns) :
            \A i \in 1 .. Len(q) - 1 : q[i].start <= q[i + 1].start}

\* a Job whose transcription and diarization are stored, about to be aligned
InitAlign ==
    /\ app \in Apps
    /\ \E text_segments \in Transcriptions, speaker_segments \in Diarizations :
          jobs = [j \in {1} |->
                    [JobRow(AudioA, CreatedStatus, "h1", "aligning", 1) EXCEPT
                        !.current_step_progress = 50,
                        !.transcription_data = [segments |-> text_segments],
                        !.diarization_data = [segments |-> speaker_segments]]]
    /\ uploads = [k \in {AudioA} |-> Raw("h1")]
    /\ transcripts = EmptyFiles
    /\ edited = EmptyFiles
    /\ summaries = EmptyFiles
    /\ export_jobs = EmptyFiles
    /\ exports = EmptyFiles
    /\ tasks = [t \in TaskIds |-> Idle]
    /\ accepted = [j \in JobIds |-> [s \in Stages |-> IF j = 1 THEN 1 ELSE 0]]
    /\ resp = NoResponse

\* the aligned transcript is computed and written to transcripts/<name>.json
AlignSegments ==
    /\ transcripts = EmptyFiles
    /\ transcripts' = write_file(transcripts, TranscriptKey(jobs[1].file_name),
                                 aligned_transcript(jobs[1].transcription_data.segments,
                                                    jobs[1].diarization_data.segments))
    /\ jobs' = update_step_progress(1, 80)
    /\ UNCHANGED <<app, export_jobs, exports, uploads, edited, summaries, tasks, accepted, resp>>

SpecAlign == InitAlign /\ [][AlignSegments]_vars

\* ------------------------------------------------------------------------
\* Claims about the alignment
\* ------------------------------------------------------------------------
\* the inputs of the alignment of Job 1 and the transcript it wrote
TextSegments == jobs[1].transcription_data.segments

SpeakerSegments == jobs[1].diarization_data.segments

Aligned == transcripts[TranscriptKey(jobs[1].file_name)]

HasAligned == 1 \in DOMAIN jobs /\ TranscriptKey(jobs[1].file_name) \in DOMAIN transcripts

\* the largest overlap of a turn with segment seg, 0 without turns
LargestOverlap(seg) ==
    LET overlaps == {Overlap(seg, SpeakerSegments[k]) : k \in 1 .. Len(SpeakerSegments)} \cup {0}
    IN  CHOOSE o \in overlaps : \A other \in overlaps : other <= o

\* C21: each segment of the aligned transcript carries the label of the turn
\* with the largest overlap max(0, min(s_end, t_end) - max(s_start, t_start)),
\* among turns of equal largest overlap one with the earliest t_start, and the
\* sentinel SPEAKER_00 when no turn overlaps the segment.
C21_LargestOverlapEarliestStart ==
    HasAligned
    => \A i \in 1 .. Len(TextSegments) :
          LET seg == TextSegments[i]
              largest == {k \in 1 .. Len(SpeakerSegments) :
                             Overlap(seg, SpeakerSegments[k]) = LargestOverlap(seg)}
          IN  IF LargestOverlap(seg) = 0
              THEN Aligned[i].speaker = "SPEAKER_00"
              ELSE \E k \in largest :
                      /\ Aligned[i].speaker = SpeakerSegments[k].speaker
                      /\ \A m \in largest :
                            SpeakerSegments[k].start <= SpeakerSegments[m].start

\* an aligned transcript with a segment that two turns of different speakers
\* overlap equally, and a segment that no turn overlaps
C21_Witness ==
    /\ HasAligned
    /\ \E i \in 1 .. Len(TextSegments), k, m \in 1 .. Len(SpeakerSegments) :
          /\ Overlap(TextSegments[i], SpeakerSegments[k]) = LargestOverlap(TextSegments[i])
          /\ Overlap(TextSegments[i], SpeakerSegments[m]) = LargestOverlap(TextSegments[i])
          /\ LargestOverlap(TextSegments[i]) > 0
          /\ SpeakerSegments[k].start < SpeakerSegments[m].start
          /\ SpeakerSegments[k].speaker # SpeakerSegments[m].speaker
          /\ Aligned[i].speaker = SpeakerSegments[k].speaker
    /\ \E i \in 1 .. Len(TextSegments) :
          /\ LargestOverlap(TextSegments[i]) = 0
          /\ Aligned[i].speaker = "SPEAKER_00"

\* C22: the aligned transcript has exactly one entry per ASR segment, in the
\* order of the ASR input (entry i is segment i: its text, its start and end,
\* and starts are nondecreasing), and every speaker label is a label of the
\* diarization input or the sentinel SPEAKER_00.
C22_OneEntryPerSegmentInOrder ==
    HasAligned
    => /\ Len(Aligned) = Len(TextSegments)
       /\ \A i \in 1 .. Len(TextSegments) :
             /\ Aligned[i].text.body = TextSegments[i].text.body
             /\ Aligned[i].start = format_2f(TextSegments[i].start)
             /\ Aligned[i].end = format_2f(TextSegments[i].end)
             /\ Aligned[i].speaker \in
                   {SpeakerSegments[k].speaker : k \in 1 .. Len(SpeakerSegments)}
                   \cup {"SPEAKER_00"}
       /\ \A i \in 1 .. Len(Aligned) - 1 :
             \/ Aligned[i].start.whole < Aligned[i + 1].start.whole
             \/ /\ Aligned[i].start.whole = Aligned[i + 1].start.whole
                /\ Aligned[i].start.frac <= Aligned[i + 1].start.frac

\* an aligned transcript of two segments whose turns are in another order
\* than the segments they label: the first segment carries the label of the
\* second turn and the second segment that of the first
C22_Witness ==
    /\ HasAligned
    /\ Len(Aligned) = MaxSegments /\ Len(SpeakerSegments) >= 2
    /\ SpeakerSegments[1].speaker # SpeakerSegments[2].speaker
    /\ Aligned[1].speaker = SpeakerSegments[2].speaker
    /\ Aligned[2].speaker = SpeakerSegments[1].speaker
    /\ Aligned[1].start # Aligned[2].start

\* ------------------------------------------------------------------------
\* Audio streaming with Range requests (api/v1/audio.py)
\* ------------------------------------------------------------------------
\* the longest Range value, in tokens after the unit
MaxTokens == 3

\* a Range value is a string of tokens: the unit "bytes=", a dash, a run of
\* digits (its number), or another character
Tok(kind, value) == [kind |-> kind, value |-> value]

Unit == Tok("bytes=", 0)

Dash == Tok("-", 0)

Junk == Tok("x", 0)

RangeNumbers == {0, 1, 2, 5}

Num(n) == Tok("num", n)

\* the Range headers of the requests; <<>> is a request without the header
RangeHeaders ==
    LET tokens == {Dash, Junk} \cup {Num(n) : n \in RangeNumbers}
        strings == {value \in SeqsUpTo(tokens, MaxTokens) :
                       \A i \in 1 .. Len(value) - 1 :
                          ~(value[i].kind = "num" /\ value[i + 1].kind = "num")}
    IN  strings \cup {<<Unit>> \o value : value \in strings}

\* the sizes of the stored audio files, in bytes
FileSizes == {0, 1, 3}

\* a stored audio file of the given size
Audio(size) == [bytes |-> "h1", form |-> "raw", size |-> size]

Min(a, b) == IF a < b THEN a ELSE b

Max(a, b) == IF a > b THEN a ELSE b

\* range_header.replace("bytes=", "")
replace_unit(range_header) == SelectSeq(range_header, LAMBDA tok : tok # Unit)

\* int(s): the number of a digit run, with an optional sign; ValueError otherwise
ValueError == [ok |-> FALSE, value |-> 0]

int(s) ==
    CASE Len(s) = 1 /\ s[1].kind = "num" -> [ok |-> TRUE, value |-> s[1].value]
      [] Len(s) = 2 /\ s[1] = Dash /\ s[2].kind = "num" -> [ok |-> TRUE, value |-> 0 - s[2].value]
      [] OTHER -> ValueError

\* range_spec.split("-")
RECURSIVE split(_)
split(range_spec) ==
    IF \A i \in 1 .. Len(range_spec) : range_spec[i] # Dash
    THEN <<range_spec>>
    ELSE LET first == CHOOSE i \in 1 .. Len(range_spec) :
                         /\ range_spec[i] = Dash
                         /\ \A j \in 1 .. i - 1 : range_spec[j] # Dash
         IN  <<SubSeq(range_spec, 1, first - 1)>>
             \o split(SubSeq(range_spec, first + 1, Len(range_spec)))

Raised == [ok |-> FALSE, start |-> 0, end |-> 0]

Parsed(start, end) == [ok |-> TRUE, start |-> start, end |-> end]

\* the three branches of parse_range_header: suffix, open-ended and explicit
parse_range_spec(range_spec, file_size) ==
    IF range_spec # <<>> /\ Head(range_spec) = Dash
    THEN LET suffix_length == int(Tail(range_spec))
         IN  IF suffix_length.ok
             THEN Parsed(Max(0, file_size - suffix_length.value), file_size - 1)
             ELSE Raised
    ELSE IF range_spec # <<>> /\ range_spec[Len(range_spec)] = Dash
    THEN LET start == int(SubSeq(range_spec, 1, Len(range_spec) - 1))
         IN  IF start.ok THEN Parsed(start.value, file_size - 1) ELSE Raised
    ELSE LET parts == split(range_spec)
             start == int(parts[1])
         IN  IF ~start.ok \/ Len(parts) < 2
             THEN Raised
             ELSE IF parts[2] = <<>>
             THEN Parsed(start.value, file_size - 1)
             ELSE IF int(parts[2]).ok
             THEN Parsed(start.value, int(parts[2]).value)
             ELSE Raised

\* end = min(end, file_size - 1)
clamp_end_none(end, file_size) == end

clamp_end(end, file_size) == Min(end, file_size - 1)

\* parse_range_header: the validated range, or the whole file when parsing or
\* validation raised
parse_range_header(range_header, file_size) ==
    LET spec == parse_range_spec(replace_unit(range_header), file_size)
        start == Max(0, spec.start)
        end == clamp_end(spec.end, file_size)
    IN  IF spec.ok /\ start <= end
        THEN [start |-> start, end |-> end]
        ELSE [start |-> 0, end |-> file_size - 1]

\* content_length = end - start + 1
content_length_exclusive(start, end) == end - start

content_length(start, end) == end - start + 1

\* the bytes stream_audio_range yields from a file of the given size
stream_audio_range(size, start, end) ==
    LET remaining == end - start + 1
    IN  IF remaining > 0 THEN Min(remaining, Max(0, size - start)) ELSE 0

NoRange == [start |-> 0 - 1, end |-> 0 - 1, size |-> 0 - 1]

\* the response of GET /jobs/{uuid}/audio: status, Content-Range,
\* Content-Length and the number of bytes of the streamed body
AudioResponse(uuid, range_header, file_size, code, content_range, length, body) ==
    [op |-> "audio", job |-> uuid, code |-> code, range |-> range_header,
     size |-> file_size, content_range |-> content_range,
     content_length |-> length, body |-> body]

\* GET /jobs/{uuid}/audio arrives with a Range header: job_repo.get, 404
\* without the Job. The model follows one audio request of a run to its
\* response; the handler reads the Job's row and its file only.
stream_audio(uuid, range_header) ==
    /\ FreeSlots # {}
    /\ resp.op # "audio" /\ \A t \in TaskIds : tasks[t].kind # "audio"
    /\ IF uuid \notin DOMAIN jobs
       THEN resp' = Response("audio", uuid, 404) /\ tasks' = tasks
       ELSE /\ tasks' = Spawn([Idle EXCEPT
                       !.kind = "audio", !.job = uuid, !.pc = "stat",
                       !.arg = jobs[uuid].file_name, !.files = range_header])
            /\ resp' = resp
    /\ UNCHANGED <<app, jobs, export_jobs, exports, fileVars, accepted>>

\* the path is resolved (404 when the file is not there) and its size is read
AudioStat(t) ==
    /\ tasks[t].kind = "audio" /\ tasks[t].pc = "stat"
    /\ IF tasks[t].arg \notin DOMAIN uploads
       THEN Finish(t, Response("audio", tasks[t].job, 404))
       ELSE /\ tasks' = [tasks EXCEPT ![t].pc = "stream",
                                      ![t].found = uploads[tasks[t].arg].size]
            /\ resp' = resp
    /\ UNCHANGED <<app, jobs, export_jobs, exports, fileVars, accepted>>

\* the StreamingResponse is returned and its body is streamed from the file as
\* it is then; a file that was removed since cannot be opened and the body
\* stays empty
AudioStream(t) ==
    /\ tasks[t].kind = "audio" /\ tasks[t].pc = "stream"
    /\ LET range_header == tasks[t].files
           file_size == tasks[t].found
           range == parse_range_header(range_header, file_size)
           size_now == IF tasks[t].arg \in DOMAIN uploads
                       THEN uploads[tasks[t].arg].size ELSE 0
       IN  IF range_header # <<>>
           THEN Finish(t, AudioResponse(tasks[t].job, range_header, file_size, 206,
                            [start |-> range.start, end |-> range.end, size |-> file_size],
                            content_length(range.start, range.end),
                            stream_audio_range(size_now, range.start, range.end)))
           ELSE Finish(t, AudioResponse(tasks[t].job, range_header, file_size, 200,
                            NoRange, file_size,
                            stream_audio_range(size_now, 0, file_size - 1)))
    /\ UNCHANGED <<app, jobs, export_jobs, exports, fileVars, accepted>>

InitAudio ==
    /\ app = "v2"
    /\ jobs = [j \in {1} |-> CompletedJob]
    /\ \E size \in FileSizes : uploads = [k \in {AudioA} |-> Audio(size)]
    /\ transcripts = EmptyFiles /\ edited = EmptyFiles /\ summaries = EmptyFiles
    /\ export_jobs = EmptyFiles /\ exports = EmptyFiles
    /\ tasks = [t \in TaskIds |-> Idle]
    /\ accepted = [j \in JobIds |-> [stage \in Stages |-> 0]]
    /\ resp = NoResponse

NextAudio ==
    \/ \E j \in JobIds, range_header \in RangeHeaders : stream_audio(j, range_header)
    \/ \E j \in JobIds : delete_job(j)
    \/ \E t \in TaskIds : AudioStat(t) \/ AudioStream(t) \/ RemoveFiles(t)

SpecAudio == InitAudio /\ [][NextAudio]_vars

\* ------------------------------------------------------------------------
\* Claims about audio streaming
\* ------------------------------------------------------------------------
\* the form of a Range header: bytes=-N, bytes=N-, bytes=A-B, or malformed
RangeForm(range_header) ==
    CASE Len(range_header) = 3 /\ range_header[1] = Unit /\ range_header[2] = Dash
         /\ range_header[3].kind = "num" -> "suffix"
      [] Len(range_header) = 3 /\ range_header[1] = Unit /\ range_header[2].kind = "num"
         /\ range_header[3] = Dash -> "open"
      [] Len(range_header) = 4 /\ range_header[1] = Unit /\ range_header[2].kind = "num"
         /\ range_header[3] = Dash /\ range_header[4].kind = "num" -> "explicit"
      [] OTHER -> "malformed"

\* the range a well-formed header selects in a file of the given size
SelectedRange(range_header, size) ==
    CASE RangeForm(range_header) = "suffix" ->
            [start |-> Max(0, size - range_header[3].value), end |-> size - 1]
      [] RangeForm(range_header) = "open" ->
            [start |-> range_header[2].value, end |-> size - 1]
      [] RangeForm(range_header) = "explicit" ->
            [start |-> range_header[2].value, end |-> Min(range_header[4].value, size - 1)]
      [] OTHER -> [start |-> 1, end |-> 0]

\* a valid Range: well-formed, and start does not exceed end after clamping
ValidRange(range_header, size) ==
    /\ RangeForm(range_header) # "malformed"
    /\ SelectedRange(range_header, size).start <= SelectedRange(range_header, size).end

\* the audio request of coroutine t is answered in this step
AudioReturns(t) ==
    /\ tasks[t].kind = "audio" /\ tasks[t].pc = "stream"
    /\ tasks'[t].kind = "idle"

\* the last response is a streamed audio response
AudioAnswered == resp.op = "audio" /\ resp.code # 404

C24_InvalidRangeIsFullContent ==
    (AudioAnswered /\ resp.range # <<>> /\ ~ValidRange(resp.range, resp.size))
    => /\ resp.code = 200
       /\ resp.content_range = NoRange
       /\ resp.content_length = resp.size

\* C25: for a file of size >= 1, the range of the answer to bytes=-N is
\* max(0, size - N) .. size - 1, to bytes=N- it is N .. size - 1, and to
\* bytes=A-B it is A .. min(B, size - 1), wherever that range is not empty
\* (an empty one degrades, C24); bytes=0-0, bytes=-1 and bytes=<size-1>- each
\* select exactly one byte: the first, the last and the last.
C25_RangeParsing ==
    (AudioAnswered /\ resp.size >= 1)
    => /\ ValidRange(resp.range, resp.size)
          => /\ resp.content_range.start = SelectedRange(resp.range, resp.size).start
             /\ resp.content_range.end = SelectedRange(resp.range, resp.size).end
       /\ resp.range = <<Unit, Num(0), Dash, Num(0)>>
          => /\ resp.content_range.start = 0 /\ resp.content_range.end = 0
             /\ resp.content_length = 1
       /\ resp.range \in {<<Unit, Dash, Num(1)>>, <<Unit, Num(resp.size - 1), Dash>>}
          => /\ resp.content_range.start = resp.size - 1
             /\ resp.content_range.end = resp.size - 1
             /\ resp.content_length = 1

\* the answer to bytes=-2 on a file of 3 bytes selects bytes 1 to 2
C25_Witness ==
    /\ AudioAnswered
    /\ resp.range = <<Unit, Dash, Num(2)>> /\ resp.size = 3
    /\ resp.content_range = [start |-> 1, end |-> 2, size |-> 3]

\* ------------------------------------------------------------------------
\* More claims about the ingest
\* ------------------------------------------------------------------------
\* C26: an upload of exactly max_file_size bytes is accepted (the request goes
\* on to write its file and, at its insert, creates its Job with 202), and an
\* upload of max_file_size + 1 bytes is answered 413 without a file written,
\* a Job stored or a coroutine left behind; no upload in progress has more
\* than max_file_size bytes.
C26_SizeLimitIsInclusive ==
    [][/\ \A name \in UploadNames, bytes \in UploadBytes :
             /\ create_job(name, bytes, max_file_size + 1)
                => /\ resp'.code = 413
                   /\ uploads' = uploads /\ jobs' = jobs
                   /\ \A t \in TaskIds : tasks'[t].kind = tasks[t].kind
             /\ create_job(name, bytes, max_file_size)
                => /\ \E t \in TaskIds :
                         /\ tasks[t].kind = "idle" /\ tasks'[t].kind = "create"
                         /\ tasks'[t].size = max_file_size
                   /\ resp'.code = resp.code
       /\ \A t \in TaskIds :
             /\ tasks'[t].size <= max_file_size
             /\ (tasks[t].kind = "create" /\ tasks[t].pc = "insert"
                 /\ tasks'[t].kind = "idle")
                => /\ tasks[t].job \in DOMAIN jobs' \ DOMAIN jobs
                   /\ resp'.code = 202 /\ resp'.job = tasks[t].job]_vars

\* an upload of max_file_size bytes has written its file and is about to
\* insert its Job, after another upload was answered 413
C26_Witness ==
    /\ resp.op = "create" /\ resp.code = 413
    /\ \E t \in TaskIds :
          /\ tasks[t].kind = "create" /\ tasks[t].pc = "insert"
          /\ tasks[t].size = max_file_size
          /\ tasks[t].arg \in DOMAIN uploads

\* the create request of coroutine t is aborted because its conversion failed
ConversionFailed(t) ==
    /\ tasks[t].kind = "create"
    /\ tasks[t].pc \in {"convert", "fail_exists", "fail_remove"}
    /\ tasks'[t].kind = "idle"
    /\ resp'.code = 500

\* C27: a create request whose WAV conversion fails is aborted with an error,
\* persists no Job, and leaves neither its uploaded original nor a partially
\* written WAV file in the upload directory.
C27_FailedConversionLeavesNothing ==
    [][\A t \in TaskIds :
          ConversionFailed(t)
          => /\ jobs' = jobs
             /\ tasks[t].arg \notin DOMAIN uploads'
             /\ \A name \in DOMAIN uploads' : uploads'[name].form # "partial"]_vars

\* ------------------------------------------------------------------------
\* File names: sanitize_filename (security.py) and the names that
\* upload_audio and the rename handlers store
\* ------------------------------------------------------------------------
\* the longest file name of a request, in characters of the alphabet below,
\* and the number of Jobs a run names
MaxNameLen == 3
MaxNamed == 1

\* a run of n characters of one class
Char(ch, n) == [ch |-> ch, n |-> n]

Dot == Char(".", 1)

Slash == Char("/", 1)

\* the letters w, a, v
Wav == Char("wav", 3)

\* the alphabet: an ASCII letter or digit, the letters wav, a dot, a slash,
\* a character that is no word character ($), a word character that is not
\* ASCII, and a run of 253 ASCII letters
NameChars == {Char("a", 1), Wav, Dot, Slash, Char("$", 1), Char("nonascii", 1),
              Char("a", 253)}

\* file.filename of an upload, file_name of a rename request
Filenames == SeqsUpTo(NameChars, MaxNameLen)

\* len(filename)
RECURSIVE len(_)
len(filename) == IF filename = <<>> THEN 0 ELSE Head(filename).n + len(Tail(filename))

\* the components of a path as pathlib keeps them: split at "/", without the
\* empty ones and the "." ones
RECURSIVE parts(_)
parts(path) ==
    LET keep(component) == IF component \in {<<>>, <<Dot>>} THEN <<>> ELSE <<component>>
    IN  IF \A i \in 1 .. Len(path) : path[i] # Slash
        THEN keep(path)
        ELSE LET first == CHOOSE i \in 1 .. Len(path) :
                             path[i] = Slash /\ \A j \in 1 .. i - 1 : path[j] # Slash
             IN  keep(SubSeq(path, 1, first - 1))
                 \o parts(SubSeq(path, first + 1, Len(path)))

\* Path(filename).name
PathName(filename) ==
    IF parts(filename) = <<>> THEN <<>> ELSE parts(filename)[Len(parts(filename))]

\* the index of the last dot of a name, 0 without one
rfind_dot(name) ==
    IF \A i \in 1 .. Len(name) : name[i] # Dot THEN 0
    ELSE CHOOSE i \in 1 .. Len(name) :
            name[i] = Dot /\ \A j \in i + 1 .. Len(name) : name[j] # Dot

\* Path(filename).suffix: from the last dot, unless it is the first or the
\* last character of the name
suffix(filename) ==
    LET name == PathName(filename)
        i == rfind_dot(name)
    IN  IF 1 < i /\ i < Len(name) THEN SubSeq(name, i, Len(name)) ELSE <<>>

\* re.sub(r'[^\w\s\-\.]', '', filename): \w of a str pattern matches every
\* Unicode word character
word_ascii(c) == c.ch \in {"a", "wav"}

word(c) == c.ch \in {"a", "wav", "nonascii"}

re_sub(filename) == SelectSeq(filename, LAMBDA c : word(c) \/ c = Dot)

\* sanitize_filename(filename, max_length = 255)
max_length == 255

Rejected == [ok |-> FALSE, name |-> <<>>]

sanitize_filename(filename) ==
    LET name == PathName(filename)
        safe_filename == re_sub(name)
    IN  IF filename = <<>> THEN Rejected
        ELSE IF \E i \in 1 .. Len(name) - 1 : name[i] = Dot /\ name[i + 1] = Dot
        THEN Rejected
        ELSE IF safe_filename = <<>> \/ safe_filename # name THEN Rejected
        ELSE IF len(safe_filename) > max_length THEN Rejected
        ELSE IF \A i \in 1 .. Len(safe_filename) : safe_filename[i] # Dot THEN Rejected
        ELSE [ok |-> TRUE, name |-> safe_filename]

\* os.path.splitext: the extension begins at the last dot, if a character
\* other than a dot comes before it
splitext(name) ==
    LET i == rfind_dot(name)
    IN  IF i > 0 /\ \E j \in 1 .. i - 1 : name[j] # Dot
        THEN FileName(SubSeq(name, 1, i - 1), <<>>, SubSeq(name, i, Len(name)))
        ELSE FileName(name, <<>>, <<>>)

\* job_uuid[:8]
short_id == <<Char("a", 8)>>

\* upload_audio: the sanitized name, or f"{job_uuid[:8]}{ext}" with the suffix
\* of the name as uploaded (".wav" without one)
safe_upload_name(filename) ==
    IF sanitize_filename(filename).ok
    THEN sanitize_filename(filename).name
    ELSE short_id \o (IF suffix(filename) # <<>> THEN suffix(filename) ELSE <<Dot, Wav>>)

NoPath == FileName(<<>>, <<>>, <<>>)

\* upload_audio names the upload and writes it: get_unique_filename in the
\* upload directory, then the file (the steps of create_job in between are
\* those of the ingest model)
UploadNamed(filename) ==
    /\ Cardinality(DOMAIN uploads) < MaxNamed
    /\ get_job_by_hash("h1") = 0
    /\ LET name == get_unique_filename(DOMAIN uploads,
                                       splitext(safe_upload_name(filename)), NoPath)
       IN  uploads' = write_file(uploads, name, Raw("h1"))
    /\ UNCHANGED <<app, jobs, transcripts, edited, summaries, export_jobs, exports,
                   tasks, accepted, resp>>

\* create_job after the upload, when no Job has the hash of the bytes: a file
\* that is not .wav is converted to <stem>.wav and removed, and the Job is
\* inserted under the name of the WAV file
JobNamed(name) ==
    /\ name \in DOMAIN uploads
    /\ get_job_by_hash(uploads[name].bytes) = 0
    /\ FreshIds # {}
    /\ LET uuid == CHOOSE j \in FreshIds : \A k \in FreshIds : j <= k
           wav == [name EXCEPT !.ext = <<Dot, Wav>>]
       IN  /\ uploads' = IF name.ext = <<Dot, Wav>> THEN uploads
                         ELSE write_file(remove_file(uploads, name), wav,
                                         [uploads[name] EXCEPT !.form = "wav"])
           /\ jobs' = add_job(uuid, wav, CreatedStatus, "h1", "uploaded")
           /\ resp' = Response("create", uuid, 202)
    /\ UNCHANGED <<app, transcripts, edited, summaries, export_jobs, exports,
                   tasks, accepted>>

\* PATCH /jobs/{uuid} with RenameJobRequest(file_name): the validator runs
\* sanitize_filename (422 when it raises); the handler stores the unique name
\* and main.py renames the audio file
JobRenamed(uuid, filename) ==
    /\ uuid \in DOMAIN jobs
    /\ LET old == jobs[uuid].file_name
           unique_new_name ==
               get_unique_filename(DOMAIN uploads,
                                   splitext(sanitize_filename(filename).name),
                                   IF app = "main" THEN old ELSE NoPath)
       IN  IF ~sanitize_filename(filename).ok \/ len(filename) > max_length
           THEN /\ resp' = Response("rename", uuid, 422)
                /\ UNCHANGED <<jobs, uploads>>
           ELSE /\ jobs' = update_file_name(uuid, unique_new_name)
                /\ uploads' = IF app = "main" /\ old \in DOMAIN uploads
                              THEN rename_file(uploads, old, unique_new_name)
                              ELSE uploads
                /\ resp' = Response("rename", uuid, 200)
    /\ UNCHANGED <<app, transcripts, edited, summaries, export_jobs, exports,
                   tasks, accepted>>

InitNames ==
    /\ app \in Apps
    /\ jobs = EmptyFiles /\ uploads = EmptyFiles
    /\ transcripts = EmptyFiles /\ edited = EmptyFiles /\ summaries = EmptyFiles
    /\ export_jobs = EmptyFiles /\ exports = EmptyFiles
    /\ tasks = [t \in TaskIds |-> Idle]
    /\ accepted = [j \in JobIds |-> [stage \in Stages |-> 0]]
    /\ resp = NoResponse

NextNames ==
    \/ \E filename \in Filenames : UploadNamed(filename)
    \/ \E name \in DOMAIN uploads : JobNamed(name)
    \/ \E j \in JobIds, filename \in Filenames : JobRenamed(j, filename)

SpecNames == InitNames /\ [][NextNames]_vars

\* the characters of a stored name, without the " (Copy n)" marks that
\* get_unique_filename adds
Characters(file_name) == file_name.stem \o file_name.ext

\* the sanitize rules: no path component, no "..", only characters of
\* [A-Za-z0-9 _.-], at most 255 characters, an extension
Sanitized(file_name) ==
    LET name == Characters(file_name)
    IN  /\ \A i \in 1 .. Len(name) : name[i] # Slash
        /\ \A i \in 1 .. Len(name) - 1 : ~(name[i] = Dot /\ name[i + 1] = Dot)
        /\ \A i \in 1 .. Len(name) : word_ascii(name[i]) \/ name[i] = Dot
        /\ len(name) <= 255
        /\ \E i \in 1 .. Len(name) : name[i] = Dot

\* C28: every file_name in the Job store, and every name under which an
\* upload is written to the upload directory, satisfies the sanitize rules,
\* the fallback name <short-id><ext> included.
C28_StoredNamesAreSanitized ==
    /\ \A j \in DOMAIN jobs : Sanitized(jobs[j].file_name)
    /\ \A name \in DOMAIN uploads : Sanitized(name)

\* ------------------------------------------------------------------------
\* More claims about job management
\* ------------------------------------------------------------------------
\* C29: a DELETE /jobs/{id} for a Job that is not in the store (it was deleted
\* before) is answered 404 and changes neither the store nor any file, and
\* starts no removal of files.
C29_SecondDeleteIs404 ==
    [][\A j \in JobIds :
          (j \notin DOMAIN jobs /\ delete_job(j))
          => /\ resp'.op = "delete" /\ resp'.job = j /\ resp'.code = 404
             /\ jobs' = jobs /\ export_jobs' = export_jobs
             /\ uploads' = uploads /\ transcripts' = transcripts
             /\ edited' = edited /\ summaries' = summaries /\ exports' = exports
             /\ \A t \in TaskIds : tasks'[t].kind = tasks[t].kind]_vars

\* Job 1 was deleted, its files are removed and its second DELETE was answered 404
C29_Witness ==
    /\ 1 \notin DOMAIN jobs
    /\ AudioA \notin DOMAIN uploads
    /\ \A t \in TaskIds : tasks[t].kind = "idle"
    /\ resp.op = "delete" /\ resp.job = 1 /\ resp.code = 404

\* ------------------------------------------------------------------------
\* GET /jobs/{uuid}: get_job_status
\* ------------------------------------------------------------------------
\* status_map of main.py; api/v1: "completed" if status_code == 200 else "processing"
status_text(status_code) ==
    IF app = "v2"
    THEN (IF status_code = 200 THEN "completed" ELSE "processing")
    ELSE CASE status_code = 200 -> "completed"
           [] status_code = 202 -> "processing"
           [] status_code = 204 -> "deleted"
           [] status_code = 404 -> "does not exist"
           [] status_code = 500 -> "error"
           [] OTHER -> "unknown"

\* the available_actions of a workflow state, in the order of the list
available_actions(workflow_state) ==
    CASE workflow_state = "uploaded" -> <<"transcribe", "delete">>
      [] workflow_state = "transcribed" -> <<"diarize", "delete">>
      [] workflow_state = "diarized" -> <<"align", "delete">>
      [] workflow_state = "completed" ->
            IF app = "main" THEN <<"export", "summary", "delete">>
            ELSE <<"export", "delete">>
      [] workflow_state = "error" /\ app = "main" -> <<"retry", "delete">>
      [] OTHER -> <<>>

JobStatusResponse(uuid, job) ==
    [op |-> "status", job |-> uuid, code |-> 200,
     status_code |-> job.status_code,
     status |-> status_text(job.status_code),
     workflow_state |-> job.workflow_state,
     current_step_progress |-> job.current_step_progress,
     available_actions |-> available_actions(job.workflow_state),
     error_message |-> job.error_message]

\* job = await get_job(uuid); 404 without the Job
get_job_status(uuid) ==
    /\ resp' = IF uuid \in DOMAIN jobs
               THEN JobStatusResponse(uuid, jobs[uuid])
               ELSE Response("status", uuid, 404)
    /\ UNCHANGED <<app, jobs, export_jobs, exports, fileVars, tasks, accepted>>

\* the steps of a transcription task
TranscriptionStep(t) ==
    /\ tasks[t].kind = "transcribe"
    /\ \/ TaskBegin(t)
       \/ TaskProgress10(t)
       \/ TaskRun(t)
       \/ TaskProgress50(t)
       \/ TaskProgress90(t)
       \/ TaskSave(t)
       \/ TaskProgress100(t)
       \/ TaskSetDone(t)
       \/ TaskErrorMessage(t)
       \/ TaskErrorState(t)

\* a Job's transcription is started and runs, to its result or to its error,
\* while clients poll the Job
NextStatus ==
    \/ \E j \in JobIds : start_transcription(j)
    \/ \E t \in TaskIds : TranscriptionStep(t)
    \/ \E j \in JobIds : get_job_status(j)

SpecStatus == Init /\ [][NextStatus]_vars

\* C30: the answer of GET /jobs/{id} for a Job in error state carries the
\* Job's error_message, which is not null, and delete as its only available
\* action; retry is not among the actions.
C30_ErrorJobOffersOnlyDelete ==
    (resp.op = "status" /\ resp.code = 200 /\ resp.workflow_state = "error")
    => /\ resp.error_message # NULL
       /\ resp.available_actions = <<"delete">>

\* ------------------------------------------------------------------------
\* More claims about the workflow
\* ------------------------------------------------------------------------
\* C31: a Job's status_code is 200 exactly when its workflow_state is
\* completed, 500 exactly when it is error, and 202 in every other state.
C31_StatusCodeMirrorsState ==
    \A j \in DOMAIN jobs :
        /\ (jobs[j].status_code = 200) <=> (jobs[j].workflow_state = "completed")
        /\ (jobs[j].status_code = 500) <=> (jobs[j].workflow_state = "error")
        /\ jobs[j].workflow_state \notin {"completed", "error"}
           => jobs[j].status_code = 202

\* C32: a Job's transcription_data is non-null if and only if its
\* workflow_state is one of transcribed, diarizing, diarized, aligning,
\* completed, and its diarization_data is non-null if and only if its
\* workflow_state is one of diarized, aligning, completed.
C32_StageDataMatchesState ==
    \A j \in DOMAIN jobs :
        /\ (jobs[j].transcription_data # NULL)
           <=> (jobs[j].workflow_state \in
                   {"transcribed", "diarizing", "diarized", "aligning", "completed"})
        /\ (jobs[j].diarization_data # NULL)
           <=> (jobs[j].workflow_state \in {"diarized", "aligning", "completed"})

\* C33: in every reachable state an ExportJob has a file_path that names an
\* existing export file if and only if its status_code is 200.
C33_FilePathValidIffDone ==
    \A e \in DOMAIN export_jobs :
        (export_jobs[e].file_path # 0 /\ export_jobs[e].file_path \in DOMAIN exports)
        <=> (export_jobs[e].status_code = 200)

\* The cleanup scheduler and the life of the service
\*
\* main.py starts the worker in a daemon thread at startup (start_cleanup_scheduler)
\* and its shutdown handler does not mention it. main_v2.py creates the worker
\* as an asyncio task (CleanupService.start_scheduler) and its lifespan calls
\* cleanup_service.stop_scheduler() without await: stop_scheduler is a
\* coroutine function, the call builds a coroutine object and its body, which
\* clears _running and cancels the task, never runs

\* the coroutine of the lifespan (main.py: startup_event, then shutdown_event)
Lifespan == [Idle EXCEPT !.kind = "lifespan", !.pc = "startup"]

\* the cleanup worker, before its first sweep
Worker == [Idle EXCEPT !.kind = "worker", !.pc = "loop"]

Workers == {t \in TaskIds : tasks[t].kind = "worker"}

\* close_database has closed the pool: every query raises
database_closed ==
    \E t \in TaskIds : tasks[t].kind = "lifespan" /\ tasks[t].pc \in {"complete", "exited"}

\* while True: (main.py), while self._running: (cleanup_service.py), where
\* _running is set by start_scheduler and cleared by stop_scheduler only
worker_continues == TRUE

\* startup: the database pool, the HTTP client, the models, then the cleanup
\* scheduler is started and the service takes requests
Startup(t) ==
    /\ tasks[t].kind = "lifespan" /\ tasks[t].pc = "startup"
    /\ FreeSlots # {}
    /\ tasks' = [Spawn(Worker) EXCEPT ![t].pc = "serving"]
    /\ UNCHANGED <<app, export_jobs, exports, jobs, fileVars, accepted, resp>>

\* cleanup_service.stop_scheduler(), called without await: the coroutine
\* object is built and dropped, the tasks are as they were
stop_scheduler == tasks

\* the service is told to stop: the code after yield, which begins with the
\* call of stop_scheduler (main_v2.py), the shutdown handler (main.py)
ShutdownBegin(t) ==
    /\ tasks[t].kind = "lifespan" /\ tasks[t].pc = "serving"
    /\ tasks' = [(IF app = "v2" THEN stop_scheduler ELSE tasks) EXCEPT ![t].pc = "close_http"]
    /\ UNCHANGED <<app, export_jobs, exports, jobs, fileVars, accepted, resp>>

\* await close_http_client(), then await close_database() and the log line
\* "MeetMemo API shutdown complete"
ShutdownClose(t) ==
    /\ tasks[t].kind = "lifespan" /\ tasks[t].pc \in {"close_http", "close_db"}
    /\ tasks' = SetPc(t, IF tasks[t].pc = "close_http" THEN "close_db" ELSE "complete")
    /\ UNCHANGED <<app, export_jobs, exports, jobs, fileVars, accepted, resp>>

\* the process ends: the event loop is closed and the daemon thread dies
ProcessExit(t) ==
    /\ tasks[t].kind = "lifespan" /\ tasks[t].pc = "complete"
    /\ tasks' = [x \in TaskIds |-> IF x = t THEN [tasks[t] EXCEPT !.pc = "exited"] ELSE Idle]
    /\ UNCHANGED <<app, export_jobs, exports, jobs, fileVars, accepted, resp>>

LifespanStep(t) ==
    \/ Startup(t)
    \/ ShutdownBegin(t)
    \/ ShutdownClose(t)
    \/ ProcessExit(t)

\* the head of the worker's loop
WorkerLoop(t) ==
    /\ tasks[t].kind = "worker" /\ tasks[t].pc = "loop"
    /\ tasks' = SetPc(t, IF worker_continues THEN "cleanup" ELSE "stopped")
    /\ UNCHANGED <<app, export_jobs, exports, jobs, fileVars, accepted, resp>>

\* await cleanup_expired_files() at time clock, inside the worker: as
\* cleanup_expired_files above, and the query of the expired Jobs may raise
WorkerCleanup(t) ==
    /\ tasks[t].kind = "worker" /\ tasks[t].pc = "cleanup"
    /\ \E clock \in {c \in SweepTimes : c >= tasks[t].found},
          ok \in (IF database_closed THEN {FALSE} ELSE BOOLEAN) :
         LET expired_jobs == IF ok THEN cleanup_old(jobs, job_retention_hours, clock) ELSE {}
             files == FilesOf(RowsOf(expired_jobs), app = "main")
         IN  /\ jobs' = delete_rows(expired_jobs)
             /\ export_jobs' = cascade(expired_jobs)
             /\ \E orphaned \in SUBSET {k \in DOMAIN uploads : k.ext # "wav"} :
                   uploads' = IF app = "main"
                              THEN [k \in DOMAIN uploads \ orphaned |-> uploads[k]]
                              ELSE uploads
             /\ tasks' = [tasks EXCEPT
                    ![t].found = clock,
                    ![t].data = "jobs",
                    ![t].files = files,
                    ![t].pc = IF ~ok THEN "log_error"
                              ELSE IF expired_jobs = {} /\ app = "main" THEN "sleep"
                              ELSE IF files = <<>> THEN "exports" ELSE "exists"]
    /\ UNCHANGED <<app, exports, transcripts, edited, summaries, accepted, resp>>

\* a worker that a failed sweep ends
after_failed_sweep_stops == "stopped"

\* where a sweep whose query raised goes on: main.py logs "Error during file
\* cleanup" and returns to the worker, which sleeps; cleanup_service.py logs
\* "Failed to query old jobs" and goes on to the export jobs with no expired Job
after_failed_sweep == IF app = "main" THEN "sleep" ELSE "exports"

\* the sweep failed: the except clause inside cleanup_expired_files
WorkerLogError(t) ==
    /\ tasks[t].kind = "worker" /\ tasks[t].pc = "log_error"
    /\ tasks' = SetPc(t, after_failed_sweep)
    /\ UNCHANGED <<app, export_jobs, exports, jobs, fileVars, accepted, resp>>

\* await asyncio.sleep(...) is over
WorkerSleep(t) ==
    /\ tasks[t].kind = "worker" /\ tasks[t].pc = "sleep"
    /\ tasks' = SetPc(t, "loop")
    /\ UNCHANGED <<app, export_jobs, exports, jobs, fileVars, accepted, resp>>

WorkerStep(t) ==
    /\ tasks[t].kind = "worker"
    /\ \/ WorkerLoop(t)
       \/ WorkerCleanup(t)
       \/ WorkerLogError(t)
       \/ WorkerSleep(t)
       \/ SweepExports(t)
       \/ RemoveFiles(t)

\* Job 1, completed at hour 1, with or without a finished export (main.py)
InitScheduler ==
    /\ app \in Apps
    /\ jobs = [j \in {1} |-> CompletedJob]
    /\ uploads = [k \in {AudioA} |-> Raw("h1")]
    /\ transcripts = [k \in {TranscriptKey(AudioA)} |-> Transcript(0, 0)]
    /\ edited = EmptyFiles
    /\ summaries \in {EmptyFiles, [j \in {1} |-> Summary(Transcript(0, 0))]}
    /\ \E exported \in (IF app = "main" THEN BOOLEAN ELSE {FALSE}) :
          /\ export_jobs =
               IF exported
               THEN [e \in {1} |->
                       [ExportRow(1, "pdf", 200, 2) EXCEPT
                           !.progress_percentage = 100, !.file_path = 1]]
               ELSE EmptyFiles
          /\ exports = IF exported THEN [e \in {1} |-> Transcript(0, 0)] ELSE EmptyFiles
    /\ tasks = [t \in TaskIds |-> IF t = 1 THEN Lifespan ELSE Idle]
    /\ accepted = [j \in JobIds |-> [s \in Stages |-> IF j = 1 THEN 1 ELSE 0]]
    /\ resp = NoResponse

NextScheduler ==
    \/ \E t \in TaskIds : LifespanStep(t)
    \/ \E t \in TaskIds : WorkerStep(t)

\* the event loop runs a task that can run, and a sleep ends
SpecScheduler ==
    InitScheduler /\ [][NextScheduler]_vars /\ WF_vars(\E t \in TaskIds : WorkerStep(t))

Serving == \E t \in TaskIds : tasks[t].kind = "lifespan" /\ tasks[t].pc = "serving"

\* C34: while the service is running and not shut down, after a failed sweep
\* the worker is still alive and another sweep is eventually attempted.
C34_FailedSweepIsRetried ==
    (\E t \in Workers : tasks[t].pc = "log_error")
        ~> (~Serving \/ \E t \in Workers : tasks[t].pc = "cleanup")

C34_Witness ==
    Serving /\ \E t \in Workers : tasks[t].pc = "log_error" /\ tasks[t].found > 10

ShutdownBegun ==
    \E t \in TaskIds : tasks[t].kind = "lifespan"
                       /\ tasks[t].pc \in {"close_http", "close_db", "complete"}

ShutdownComplete == \E t \in TaskIds : tasks[t].kind = "lifespan" /\ tasks[t].pc = "complete"

SweepStarts == \E t \in TaskIds : WorkerCleanup(t)

\* C35: on shutdown the scheduler task is cancelled, also while it sleeps, and
\* has terminated before shutdown completes; no sweep starts after shutdown
\* has begun.
C35_ShutdownStopsScheduler ==
    [][/\ ShutdownBegun => ~SweepStarts
       /\ ShutdownComplete' => \A t \in TaskIds : tasks'[t].kind = "worker" => tasks'[t].pc = "stopped"]_vars

\* The process stops and is started again
\*
\* The rows and the files outlive the process, its coroutines do not.

\* a start that would put the Jobs a stopped process left in a stage into error
init_database_recovers ==
    [j \in DOMAIN jobs |->
        IF jobs[j].workflow_state \in {IngState(s) : s \in Stages}
        THEN [jobs[j] EXCEPT !.workflow_state = "error"]
        ELSE jobs[j]]

\* init_database: asyncpg.create_pool and nothing else, the rows are as the
\* process before left them
init_database == jobs

\* the process starts: init_database, the HTTP client, the models, and the
\* cleanup scheduler is started
Boot ==
    /\ \A t \in TaskIds : tasks[t].kind = "idle"
    /\ jobs' = init_database
    /\ tasks' = Spawn(Worker)
    /\ UNCHANGED <<app, export_jobs, exports, fileVars, accepted, resp>>

\* the process stops, whatever its coroutines were doing
Crash ==
    /\ Workers # {}
    /\ tasks' = [t \in TaskIds |-> Idle]
    /\ UNCHANGED <<app, export_jobs, exports, jobs, fileVars, accepted, resp>>

\* requests are answered while the process runs
NextRestart ==
    \/ Boot
    \/ Crash
    \/ \E j \in JobIds : Workers # {} /\ start_transcription(j)
    \/ \E j \in JobIds : Workers # {} /\ delete_job(j)
    \/ \E t \in TaskIds : TranscriptionStep(t)
    \/ \E t \in TaskIds : RemoveFiles(t) \/ SweepExports(t)
    \/ \E t \in TaskIds : WorkerLoop(t) \/ WorkerCleanup(t) \/ WorkerLogError(t) \/ WorkerSleep(t)

SpecRestart == Init /\ [][NextRestart]_vars

\* a Job in a stage that no task is working on
Stalled(j) ==
    /\ j \in DOMAIN jobs
    /\ jobs[j].workflow_state \in {IngState(s) : s \in Stages}
    /\ \A t \in TaskIds : tasks[t].kind \in Stages => tasks[t].job # j

\* the cleanup worker removes the row of j: a sweep past the retention window
Expires(j) ==
    \E t \in TaskIds :
        /\ WorkerCleanup(t)
        /\ jobs[j].created_at < tasks'[t].found - job_retention_hours

\* C36: a Job whose stage task the stop of the process took away is still
\* stored in the same -ing state after the restart; startup and the scheduler
\* leave it in that state, and only a delete or the retention expiry removes it.
C36_StalledJobStays ==
    [][\A j \in JobIds :
          Stalled(j) =>
             IF j \in DOMAIN jobs'
             THEN jobs'[j].workflow_state = jobs[j].workflow_state
             ELSE delete_job(j) \/ Expires(j)]_vars

C36_Witness ==
    /\ Stalled(1)
    /\ \E t \in Workers : tasks[t].pc = "sleep" /\ tasks[t].found = 10

\* C37: no two Jobs in the store share an audio path or a transcript basename,
\* whatever uploads (converted to WAV or not) overlap, and no step of an upload
\* overwrites the audio file of a Job in the store.
C37_JobNamesNeverCollide ==
    /\ [](\A i, j \in DOMAIN jobs :
             i # j => /\ jobs[i].file_name # jobs[j].file_name
                      /\ splitext0(jobs[i].file_name) # splitext0(jobs[j].file_name))
    /\ [][\A j \in DOMAIN jobs :
             (jobs[j].file_name \in DOMAIN uploads /\ jobs[j].file_name \in DOMAIN uploads')
             => uploads'[jobs[j].file_name] = uploads[jobs[j].file_name]]_vars

\* The delete of a Job while its tasks run
NextRace ==
    \/ \E j \in JobIds : start_alignment(j)
    \/ \E t \in TaskIds : AlignStep(t)
    \/ \E j \in JobIds, export_type \in ExportTypes : create_export_job(j, export_type)
    \/ \E t \in TaskIds : ExportStep(t)
    \/ \E j \in JobIds : delete_job(j)
    \/ \E t \in TaskIds : RemoveFiles(t)

SpecRace == InitExport /\ [][NextRace]_vars

\* a stage task or an export task whose Job is no longer in the store
Orphaned(t) ==
    /\ tasks[t].kind \in Stages \cup {"export"}
    /\ tasks[t].job \notin DOMAIN jobs

\* C38: once a Job is deleted while one of its stage or export tasks is still
\* running, no later step of the task creates the Job row again, and none
\* puts a transcript, summary or export file on disk.
C38_NoWritesAfterDelete ==
    [][\A t \in TaskIds :
          (Orphaned(t) /\ tasks'[t].pc # tasks[t].pc)
          => /\ DOMAIN jobs' = DOMAIN jobs
             /\ DOMAIN transcripts' \subseteq DOMAIN transcripts
             /\ DOMAIN summaries' \subseteq DOMAIN summaries
             /\ DOMAIN exports' \subseteq DOMAIN exports]_vars

\* Renames before the sweep
\*
\* sanitize_filename keeps the extension the request names: a Job can be
\* renamed to a name that does not end in .wav

\* RenameJobRequest.file_name: a name with another extension than .wav
SweptNames == {FileName("b", <<>>, "mp3")}

NextOrphan ==
    \/ \E j \in JobIds, new_name \in SweptNames : rename_job(j, new_name)
    \/ \E t \in TaskIds : RenameUpdate(t) \/ RenameFiles(t)
    \/ \E clock \in SweepTimes : cleanup_expired_files(clock)
    \/ \E t \in TaskIds : RemoveFiles(t) \/ SweepExports(t)

SpecOrphan == InitManage /\ [][NextOrphan]_vars

\* C39: the orphaned-upload step of the sweep never removes the audio file of
\* a Job that is in the store, whatever renames went before.
C39_OrphanStepSparesLiveAudio ==
    [][\A clock \in SweepTimes :
          cleanup_expired_files(clock)
          => \A j \in DOMAIN jobs :
                jobs[j].file_name \in DOMAIN uploads
                => jobs[j].file_name \in DOMAIN uploads']_vars

\* The status and the download of an export
\*
\* GET /jobs/{uuid}/exports/{export_uuid}[/download] (main.py) and
\* GET /jobs/{uuid}/export-jobs/{export_uuid}[/download] (api/v1). The store
\* is the one database whichever entry point serves: the export rows in it
\* are the rows process_export_job wrote.

LookupOps == {"export_status", "download"}

\* the handler of a request: main.py looks the export up first, api/v1 the Job
lookup_export(op, uuid, export_uuid) ==
    Spawn([Idle EXCEPT !.kind = op, !.job = uuid, !.export = export_uuid,
                       !.pc = IF app = "v2" THEN "job" ELSE "export"])

\* GET .../{export_uuid}
get_export_job_status(uuid, export_uuid) ==
    /\ FreeSlots # {}
    /\ tasks' = lookup_export("export_status", uuid, export_uuid)
    /\ UNCHANGED <<app, export_jobs, exports, jobs, fileVars, accepted, resp>>

\* GET .../{export_uuid}/download
download_export(uuid, export_uuid) ==
    /\ FreeSlots # {}
    /\ tasks' = lookup_export("download", uuid, export_uuid)
    /\ UNCHANGED <<app, export_jobs, exports, jobs, fileVars, accepted, resp>>

\* api/v1: job = await job_repo.get(uuid); 404 without the Job
LookupJob(t) ==
    /\ tasks[t].kind \in LookupOps /\ tasks[t].pc = "job"
    /\ IF tasks[t].job \in DOMAIN jobs
       THEN tasks' = SetPc(t, "export") /\ resp' = resp
       ELSE Finish(t, Response(tasks[t].kind, tasks[t].job, 404))
    /\ UNCHANGED <<app, export_jobs, exports, jobs, fileVars, accepted>>

\* main.py: if str(export_job['job_uuid']) != uuid: 404. api/v1 has no such test
belongs(export_job, uuid) == app = "v2" \/ export_job.job_uuid = uuid

\* export_job = await get_export_job(export_uuid), 404 without the row, and
\* what follows up to the next await. The status of main.py answers 200; the
\* status of api/v1 builds ExportJobStatusResponse without its required fields
\* uuid, export_type and progress_percentage, which raises: 500. The download
\* answers 400 unless status_code is 200 and 404 without a file_path; api/v1
\* tests os.path.exists(file_path) at once, main.py awaits it
LookupExport(t) ==
    /\ tasks[t].kind \in LookupOps /\ tasks[t].pc = "export"
    /\ LET answer(code) == Finish(t, Response(tasks[t].kind, tasks[t].job, code))
           e == tasks[t].export
       IN  IF e \notin DOMAIN export_jobs THEN answer(404)
           ELSE IF ~belongs(export_jobs[e], tasks[t].job) THEN answer(404)
           ELSE IF tasks[t].kind = "export_status"
           THEN answer(IF app = "v2" THEN 500 ELSE 200)
           ELSE IF export_jobs[e].status_code # 200 THEN answer(400)
           ELSE IF export_jobs[e].file_path = 0 THEN answer(404)
           ELSE IF app = "v2"
           THEN answer(IF export_jobs[e].file_path \in DOMAIN exports THEN 200 ELSE 404)
           ELSE /\ tasks' = [tasks EXCEPT ![t].pc = "file",
                                          ![t].found = export_jobs[e].job_uuid,
                                          ![t].size = export_jobs[e].file_path]
                /\ resp' = resp
    /\ UNCHANGED <<app, export_jobs, exports, jobs, fileVars, accepted>>

\* main.py: if not await aiofiles.os.path.exists(file_path): 404; else the
\* file is streamed
LookupFile(t) ==
    /\ tasks[t].kind \in LookupOps /\ tasks[t].pc = "file"
    /\ Finish(t, Response(tasks[t].kind, tasks[t].job,
                          IF tasks[t].size \in DOMAIN exports THEN 200 ELSE 404))
    /\ UNCHANGED <<app, export_jobs, exports, jobs, fileVars, accepted>>

AudioB == FileName("b", <<>>, "wav")

\* Jobs 1 and 2, completed; Job 1 has an export, finished or in progress
InitLookup ==
    /\ app \in Apps
    /\ jobs = [j \in {1, 2} |->
                 IF j = 1 THEN CompletedJob
                 ELSE [CompletedJob EXCEPT !.file_name = AudioB, !.file_hash = "h2"]]
    /\ uploads = [k \in {AudioA, AudioB} |-> Raw(IF k = AudioA THEN "h1" ELSE "h2")]
    /\ transcripts = [k \in {TranscriptKey(AudioA), TranscriptKey(AudioB)} |-> Transcript(0, 0)]
    /\ edited = EmptyFiles
    /\ summaries = EmptyFiles
    /\ \E done \in BOOLEAN :
          /\ export_jobs =
               [e \in {1} |->
                   IF done
                   THEN [ExportRow(1, "pdf", 200, 2) EXCEPT
                            !.progress_percentage = 100, !.file_path = 1]
                   ELSE ExportRow(1, "pdf", 202, 2)]
          /\ exports = IF done THEN [e \in {1} |-> Transcript(0, 0)] ELSE EmptyFiles
    /\ tasks = [t \in TaskIds |-> Idle]
    /\ accepted = [j \in JobIds |-> [s \in Stages |-> IF j \in {1, 2} THEN 1 ELSE 0]]
    /\ resp = NoResponse

NextLookup ==
    \/ \E j \in JobIds, e \in ExportIds : get_export_job_status(j, e)
    \/ \E j \in JobIds, e \in ExportIds : download_export(j, e)
    \/ \E t \in TaskIds : LookupJob(t) \/ LookupExport(t) \/ LookupFile(t)
    \/ \E j \in JobIds : delete_job(j)
    \/ \E t \in TaskIds : RemoveFiles(t)

SpecLookup == InitLookup /\ [][NextLookup]_vars

\* the handler of slot t answers
LookupAnswers(t) == tasks[t].kind \in LookupOps /\ tasks'[t].kind = "idle"

\* the Job the export of the request belongs to, 0 without the export
ExportOwner(t) ==
    IF tasks[t].found # 0 THEN tasks[t].found
    ELSE IF tasks[t].export \in DOMAIN export_jobs
    THEN export_jobs[tasks[t].export].job_uuid
    ELSE 0

\* C40: an export status or download request addressed as Job J, export E
\* succeeds only when E belongs to J; for an export of another Job it answers
\* 404 and serves no bytes.
C40_ExportIsServedToItsJobOnly ==
    [][\A t \in TaskIds :
          LookupAnswers(t)
          => /\ resp'.code = 200 => ExportOwner(t) = tasks[t].job
             /\ ExportOwner(t) \notin {0, tasks[t].job} => resp'.code = 404]_vars
====
